---- MODULE Spec2Model ----
(***************************************************************************)
(* Model of create-spring-app: the template engine (lib/templates.js) and  *)
(* the generator's context builder (lib/generator.js).                     *)
(*                                                                         *)
(* JavaScript strings that the code scans with regular expressions are     *)
(* sequences of one-character strings, so that the regular expressions of  *)
(* the engine are modelled by what they match.  JavaScript values are      *)
(* records with a type tag.                                                *)
(***************************************************************************)
EXTENDS Integers, Sequences, FiniteSets, TLC

\* ------------------------------------------------------------------------
\* Bounds of the model
\* ------------------------------------------------------------------------

\* Longest array the context holds for an iteration key.
MaxItems == 2

\* Longest free-form template, counted in pieces (markers and literal runs).
MaxPieces == 3

\* Longest feature list of a configuration.
MaxFeatures == 2

\* The most runs of generateProject in one working directory.
MaxRuns == 2

\* ------------------------------------------------------------------------
\* Characters and strings
\* ------------------------------------------------------------------------

Lower == {"a","b","c","d","e","f","g","h","i","j","k","l","m",
          "n","o","p","q","r","s","t","u","v","w","x","y","z"}

Upper == {"A","B","C","D","E","F","G","H","I","J","K","L","M",
          "N","O","P","Q","R","S","T","U","V","W","X","Y","Z"}

Digit == {"0","1","2","3","4","5","6","7","8","9"}

\* The class \w of the three regular expressions.
WordChars == Lower \cup Upper \cup Digit \cup {"_"}

\* The literal parts of the regular expressions.
OpenVar == <<"{","{">>

CloseTag == <<"}","}">>

OpenIf == <<"{","{","#","i","f"," ">>

EndIf == <<"{","{","/","i","f","}","}">>

OpenEach == <<"{","{","#","e","a","c","h"," ">>

EndEach == <<"{","{","/","e","a","c","h","}","}">>

ItemMarker == <<"{","{","i","t","e","m","}","}">>

\* s has lit at position i.
StartsWithAt(s, i, lit) ==
  /\ i >= 1
  /\ i + Len(lit) - 1 <= Len(s)
  /\ \A j \in 1..Len(lit) : s[i + j - 1] = lit[j]

\* The position after the longest run of \w characters that starts at i.
RECURSIVE WordRunEnd(_, _)
WordRunEnd(s, i) ==
  IF i <= Len(s) /\ s[i] \in WordChars THEN WordRunEnd(s, i + 1) ELSE i

\* The first position >= i where lit occurs in s, 0 when there is none.
RECURSIVE IndexOfFrom(_, _, _)
IndexOfFrom(s, lit, i) ==
  IF i + Len(lit) - 1 > Len(s) THEN 0
  ELSE IF StartsWithAt(s, i, lit) THEN i
  ELSE IndexOfFrom(s, lit, i + 1)

\* The concatenation of a sequence of strings (Array.prototype.join('')).
RECURSIVE Concat(_)
Concat(ss) == IF ss = <<>> THEN <<>> ELSE Head(ss) \o Concat(Tail(ss))

\* ------------------------------------------------------------------------
\* JavaScript values
\* ------------------------------------------------------------------------

Val(t, b, n, s, a) == [t |-> t, b |-> b, n |-> n, s |-> s, a |-> a]

Undefined == Val("undefined", FALSE, 0, <<>>, <<>>)

Null == Val("null", FALSE, 0, <<>>, <<>>)

Bool(b) == Val("boolean", b, 0, <<>>, <<>>)

Num(n) == Val("number", FALSE, n, <<>>, <<>>)

Str(s) == Val("string", FALSE, 0, s, <<>>)

\* An array of scalar values.
Arr(a) == Val("array", FALSE, 0, <<>>, a)

\* A built-in function, s its name.
Fn(s) == Val("function", FALSE, 0, s, <<>>)

\* A plain object that is neither an array nor a function.
Obj == Val("object", FALSE, 0, <<>>, <<>>)

\* The names every object literal inherits from Object.prototype.
ObjectPrototypeNames ==
  [ constructor |-> <<"c","o","n","s","t","r","u","c","t","o","r">>,
    hasOwnProperty |-> <<"h","a","s","O","w","n","P","r","o","p","e","r","t","y">>,
    isPrototypeOf |-> <<"i","s","P","r","o","t","o","t","y","p","e","O","f">>,
    propertyIsEnumerable |-> <<"p","r","o","p","e","r","t","y","I","s","E","n","u","m","e","r","a","b","l","e">>,
    toLocaleString |-> <<"t","o","L","o","c","a","l","e","S","t","r","i","n","g">>,
    toString |-> <<"t","o","S","t","r","i","n","g">>,
    valueOf |-> <<"v","a","l","u","e","O","f">>,
    __defineGetter__ |-> <<"_","_","d","e","f","i","n","e","G","e","t","t","e","r","_","_">>,
    __defineSetter__ |-> <<"_","_","d","e","f","i","n","e","S","e","t","t","e","r","_","_">>,
    __lookupGetter__ |-> <<"_","_","l","o","o","k","u","p","G","e","t","t","e","r","_","_">>,
    __lookupSetter__ |-> <<"_","_","l","o","o","k","u","p","S","e","t","t","e","r","_","_">>,
    __proto__ |-> <<"_","_","p","r","o","t","o","_","_">> ]

\* The value an object literal inherits under the name n.
InheritedValue(n) ==
  IF n = "__proto__" THEN Obj
  ELSE IF n = "constructor" THEN Fn(<<"O","b","j","e","c","t">>)
  ELSE Fn(ObjectPrototypeNames[n])

\* ctx[key] for a context built by an object literal: the own property, else
\* the property inherited from Object.prototype, else undefined.
Lookup(ctx, key) ==
  IF key \in DOMAIN ctx THEN ctx[key]
  ELSE IF \E n \in DOMAIN ObjectPrototypeNames : ObjectPrototypeNames[n] = key
       THEN InheritedValue(CHOOSE n \in DOMAIN ObjectPrototypeNames :
                             ObjectPrototypeNames[n] = key)
       ELSE Undefined

\* Truthy with a slip: only false, null and undefined count as false.
TruthyNullish(v) ==
  CASE v.t = "undefined" -> FALSE
    [] v.t = "null"      -> FALSE
    [] v.t = "boolean"   -> v.b
    [] OTHER             -> TRUE

\* Boolean(v).
Truthy(v) ==
  CASE v.t = "undefined" -> FALSE
    [] v.t = "null"      -> FALSE
    [] v.t = "boolean"   -> v.b
    [] v.t = "number"    -> v.n # 0
    [] v.t = "string"    -> v.s # <<>>
    [] OTHER             -> TRUE

\* Array.isArray(v).
IsArray(v) == v.t = "array"

DigitChars == <<"0","1","2","3","4","5","6","7","8","9">>

\* The decimal digits of a natural number.
RECURSIVE NatToString(_)
NatToString(n) ==
  IF n < 10 THEN <<DigitChars[n + 1]>>
  ELSE NatToString(n \div 10) \o <<DigitChars[(n % 10) + 1]>>

\* String(v) of a value that is no array.
ScalarToString(v) ==
  CASE v.t = "undefined" -> <<"u","n","d","e","f","i","n","e","d">>
    [] v.t = "null"      -> <<"n","u","l","l">>
    [] v.t = "boolean"   -> IF v.b THEN <<"t","r","u","e">>
                                   ELSE <<"f","a","l","s","e">>
    [] v.t = "number"    -> NatToString(v.n)
    [] v.t = "string"    -> v.s
    [] v.t = "function"  -> <<"f","u","n","c","t","i","o","n"," ">> \o v.s \o
                            <<"(",")"," ","{"," ","[","n","a","t","i","v","e",
                              " ","c","o","d","e","]"," ","}">>
    [] OTHER             -> <<"[","o","b","j","e","c","t"," ",
                              "O","b","j","e","c","t","]">>

\* Array.prototype.join(','): null and undefined elements are empty.
RECURSIVE JoinComma(_)
JoinComma(a) ==
  IF a = <<>> THEN <<>>
  ELSE LET h == IF Head(a).t \in {"undefined", "null"} THEN <<>>
                ELSE ScalarToString(Head(a))
       IN IF Len(a) = 1 THEN h ELSE h \o <<",">> \o JoinComma(Tail(a))

\* String(v).
String(v) == IF IsArray(v) THEN JoinComma(v.a) ELSE ScalarToString(v)

\* ------------------------------------------------------------------------
\* The template engine
\* ------------------------------------------------------------------------

\* IfReplacement with a slip: the negation mark is ignored.
IfReplacementNoNegate(negate, key, body, ctx) ==
  IF Truthy(Lookup(ctx, key)) THEN body ELSE <<>>

\* The replacement callback of processIf: the block's body when the
\* (possibly negated) truth value of ctx[key] is true, else ''.
IfReplacement(negate, key, body, ctx) ==
  LET val == Truthy(Lookup(ctx, key))
  IN IF (IF negate THEN ~val ELSE val) THEN body ELSE <<>>

\* The position of the last occurrence of lit in s at or after i, 0 when
\* there is none.
LastIndexOfFrom(s, lit, i) ==
  LET at == {j \in i..Len(s) : StartsWithAt(s, j, lit)}
  IN IF at = {} THEN 0 ELSE CHOOSE j \in at : \A m \in at : m <= j

\* MatchIf with a slip: the body is greedy, it runs to the last closing
\* marker.
MatchIfGreedy(s, i) ==
  LET p       == i + Len(OpenIf)
      negate  == p <= Len(s) /\ s[p] = "!"
      ks      == IF negate THEN p + 1 ELSE p
      ke      == WordRunEnd(s, ks)
      closeAt == LastIndexOfFrom(s, EndIf, ke + Len(CloseTag))
  IN IF /\ StartsWithAt(s, i, OpenIf)
        /\ ke > ks
        /\ StartsWithAt(s, ke, CloseTag)
        /\ closeAt > 0
     THEN [ok |-> TRUE, negate |-> negate, key |-> SubSeq(s, ks, ke - 1),
           body |-> SubSeq(s, ke + Len(CloseTag), closeAt - 1),
           next |-> closeAt + Len(EndIf)]
     ELSE [ok |-> FALSE, negate |-> FALSE, key |-> <<>>, body |-> <<>>,
           next |-> i + 1]

\* A match of /\{\{#if (!?)(\w+)\}\}([\s\S]*?)\{\{\/if\}\}/ that starts at i:
\* the opening marker with its optional '!' and its key, the shortest body
\* and the first closing marker after the opening one.
MatchIf(s, i) ==
  LET p       == i + Len(OpenIf)
      negate  == p <= Len(s) /\ s[p] = "!"
      ks      == IF negate THEN p + 1 ELSE p
      ke      == WordRunEnd(s, ks)
      closeAt == IndexOfFrom(s, EndIf, ke + Len(CloseTag))
  IN IF /\ StartsWithAt(s, i, OpenIf)
        /\ ke > ks
        /\ StartsWithAt(s, ke, CloseTag)
        /\ closeAt > 0
     THEN [ok |-> TRUE, negate |-> negate, key |-> SubSeq(s, ks, ke - 1),
           body |-> SubSeq(s, ke + Len(CloseTag), closeAt - 1),
           next |-> closeAt + Len(EndIf)]
     ELSE [ok |-> FALSE, negate |-> FALSE, key |-> <<>>, body |-> <<>>,
           next |-> i + 1]

\* String.prototype.replace with the global flag, from position i on: the
\* leftmost match is replaced and the scan goes on after it.
RECURSIVE ProcessIfFrom(_, _, _)
ProcessIfFrom(s, i, ctx) ==
  IF i > Len(s) THEN <<>>
  ELSE LET m == MatchIf(s, i)
       IN IF m.ok
          THEN IfReplacement(m.negate, m.key, m.body, ctx)
                 \o ProcessIfFrom(s, m.next, ctx)
          ELSE <<s[i]>> \o ProcessIfFrom(s, i + 1, ctx)

processIf(src, ctx) == ProcessIfFrom(src, 1, ctx)

\* The grave accent (U+0060), a character a TLA+ string cannot hold.
GraveAccent == "grave"

\* The expansion of a replacement string (GetSubstitution with no capture
\* group): $$ is '$', $& the match, $ with a grave accent the text before
\* it, $' the text after it; every other '$' stands for itself.
RECURSIVE ExpandReplacement(_, _, _, _, _)
ExpandReplacement(repl, j, matched, before, after) ==
  IF j > Len(repl) THEN <<>>
  ELSE IF repl[j] = "$" /\ j < Len(repl) /\ repl[j + 1] \in {"$", "&", GraveAccent, "'"}
       THEN (CASE repl[j + 1] = "$" -> <<"$">>
               [] repl[j + 1] = "&" -> matched
               [] repl[j + 1] = GraveAccent -> before
               [] OTHER             -> after)
              \o ExpandReplacement(repl, j + 2, matched, before, after)
       ELSE <<repl[j]>> \o ExpandReplacement(repl, j + 1, matched, before, after)

\* body.replace(/\{\{item\}\}/g, repl), repl a replacement string.
RECURSIVE ReplaceItemFrom(_, _, _)
ReplaceItemFrom(body, i, repl) ==
  IF i > Len(body) THEN <<>>
  ELSE IF StartsWithAt(body, i, ItemMarker)
       THEN ExpandReplacement(repl, 1, ItemMarker, SubSeq(body, 1, i - 1),
                              SubSeq(body, i + Len(ItemMarker), Len(body)))
              \o ReplaceItemFrom(body, i + Len(ItemMarker), repl)
       ELSE <<body[i]>> \o ReplaceItemFrom(body, i + 1, repl)

\* The replacement callback of processEach: '' unless ctx[key] is an array,
\* else one copy of the body per element, joined with no separator.
EachReplacement(key, body, ctx) ==
  LET arr == Lookup(ctx, key)
  IN IF ~IsArray(arr) THEN <<>>
     ELSE Concat([n \in 1..Len(arr.a) |->
                    ReplaceItemFrom(body, 1, String(arr.a[n]))])

\* A match of /\{\{#each (\w+)\}\}([\s\S]*?)\{\{\/each\}\}/ that starts at i.
MatchEach(s, i) ==
  LET ks      == i + Len(OpenEach)
      ke      == WordRunEnd(s, ks)
      closeAt == IndexOfFrom(s, EndEach, ke + Len(CloseTag))
  IN IF /\ StartsWithAt(s, i, OpenEach)
        /\ ke > ks
        /\ StartsWithAt(s, ke, CloseTag)
        /\ closeAt > 0
     THEN [ok |-> TRUE, key |-> SubSeq(s, ks, ke - 1),
           body |-> SubSeq(s, ke + Len(CloseTag), closeAt - 1),
           next |-> closeAt + Len(EndEach)]
     ELSE [ok |-> FALSE, key |-> <<>>, body |-> <<>>, next |-> i + 1]

RECURSIVE ProcessEachFrom(_, _, _)
ProcessEachFrom(s, i, ctx) ==
  IF i > Len(s) THEN <<>>
  ELSE LET m == MatchEach(s, i)
       IN IF m.ok
          THEN EachReplacement(m.key, m.body, ctx)
                 \o ProcessEachFrom(s, m.next, ctx)
          ELSE <<s[i]>> \o ProcessEachFrom(s, i + 1, ctx)

processEach(src, ctx) == ProcessEachFrom(src, 1, ctx)

\* InterpolateReplacement with a slip: the test is val ? String(val) : ''.
InterpolateReplacementFalsy(key, ctx) ==
  LET val == Lookup(ctx, key)
  IN IF Truthy(val) THEN String(val) ELSE <<>>

\* The replacement callback of interpolate: String(ctx[key]), '' when the
\* value is undefined or null.
InterpolateReplacement(key, ctx) ==
  LET val == Lookup(ctx, key)
  IN IF val.t # "undefined" /\ val.t # "null" THEN String(val) ELSE <<>>

\* MatchVar with a slip: the key is \w* and may be empty.
MatchVarEmptyKey(s, i) ==
  LET ks == i + Len(OpenVar)
      ke == WordRunEnd(s, ks)
  IN IF StartsWithAt(s, i, OpenVar) /\ StartsWithAt(s, ke, CloseTag)
     THEN [ok |-> TRUE, key |-> SubSeq(s, ks, ke - 1),
           next |-> ke + Len(CloseTag)]
     ELSE [ok |-> FALSE, key |-> <<>>, next |-> i + 1]

\* A match of /\{\{(\w+)\}\}/ that starts at i.
MatchVar(s, i) ==
  LET ks == i + Len(OpenVar)
      ke == WordRunEnd(s, ks)
  IN IF /\ StartsWithAt(s, i, OpenVar)
        /\ ke > ks
        /\ StartsWithAt(s, ke, CloseTag)
     THEN [ok |-> TRUE, key |-> SubSeq(s, ks, ke - 1),
           next |-> ke + Len(CloseTag)]
     ELSE [ok |-> FALSE, key |-> <<>>, next |-> i + 1]

RECURSIVE InterpolateFrom(_, _, _)
InterpolateFrom(s, i, ctx) ==
  IF i > Len(s) THEN <<>>
  ELSE LET m == MatchVar(s, i)
       IN IF m.ok
          THEN InterpolateReplacement(m.key, ctx)
                 \o InterpolateFrom(s, m.next, ctx)
          ELSE <<s[i]>> \o InterpolateFrom(s, i + 1, ctx)

interpolate(src, ctx) == InterpolateFrom(src, 1, ctx)

\* RenderPass with a slip: the iteration pass runs before the conditional one.
RenderPassEachFirst(n, src, ctx) ==
  CASE n = 1 -> processEach(src, ctx)
    [] n = 2 -> processIf(src, ctx)
    [] OTHER -> interpolate(src, ctx)

\* RenderPass with a slip: the conditional pass runs again on the output of
\* the iteration pass.
RenderPassIfAgain(n, src, ctx) ==
  CASE n = 1 -> processIf(src, ctx)
    [] n = 2 -> processIf(processEach(src, ctx), ctx)
    [] OTHER -> interpolate(src, ctx)

\* The n-th rewrite of renderTemplate.
RenderPass(n, src, ctx) ==
  CASE n = 1 -> processIf(src, ctx)
    [] n = 2 -> processEach(src, ctx)
    [] OTHER -> interpolate(src, ctx)

\* renderTemplate on template text, all three passes.
Render(src, ctx) ==
  RenderPass(3, RenderPass(2, RenderPass(1, src, ctx), ctx), ctx)

\* ------------------------------------------------------------------------
\* The generator: buildContext
\* ------------------------------------------------------------------------

\* Property names of the configuration and of the render context.
PropertyName ==
  [ projectName |-> <<"p","r","o","j","e","c","t","N","a","m","e">>,
    packageName |-> <<"p","a","c","k","a","g","e","N","a","m","e">>,
    description |-> <<"d","e","s","c","r","i","p","t","i","o","n">>,
    buildTool |-> <<"b","u","i","l","d","T","o","o","l">>,
    javaVersion |-> <<"j","a","v","a","V","e","r","s","i","o","n">>,
    bootVersion |-> <<"b","o","o","t","V","e","r","s","i","o","n">>,
    database |-> <<"d","a","t","a","b","a","s","e">>,
    features |-> <<"f","e","a","t","u","r","e","s">>,
    enablePreview |->
        <<"e","n","a","b","l","e","P","r","e","v","i","e","w">>,
    minimal |-> <<"m","i","n","i","m","a","l">>,
    appName |-> <<"a","p","p","N","a","m","e">>,
    packagePath |-> <<"p","a","c","k","a","g","e","P","a","t","h">>,
    dbDependency |-> <<"d","b","D","e","p","e","n","d","e","n","c","y">>,
    dbMavenDep |-> <<"d","b","M","a","v","e","n","D","e","p">>,
    hasJpa |-> <<"h","a","s","J","p","a">>,
    hasMongo |-> <<"h","a","s","M","o","n","g","o">>,
    hasActuator |-> <<"h","a","s","A","c","t","u","a","t","o","r">>,
    hasSecurity |-> <<"h","a","s","S","e","c","u","r","i","t","y">>,
    hasValidation |->
        <<"h","a","s","V","a","l","i","d","a","t","i","o","n">>,
    hasModulith |-> <<"h","a","s","M","o","d","u","l","i","t","h">>,
    hasNative |-> <<"h","a","s","N","a","t","i","v","e">>,
    hasWebFlux |-> <<"h","a","s","W","e","b","F","l","u","x">>,
    hasDockerCompose |->
        <<"h","a","s","D","o","c","k","e","r","C","o","m","p","o","s","e">>,
    year |-> <<"y","e","a","r">>,
    modulithDataDep |->
        <<"m","o","d","u","l","i","t","h","D","a","t","a","D","e","p">> ]

\* Database tokens; oracle is one the tables do not know.
DbToken ==
  [ postgresql |-> <<"p","o","s","t","g","r","e","s","q","l">>,
    mysql |-> <<"m","y","s","q","l">>,
    mongodb |-> <<"m","o","n","g","o","d","b">>,
    h2 |-> <<"h","2">>,
    none |-> <<"n","o","n","e">>,
    oracle |-> <<"o","r","a","c","l","e">> ]

\* Feature tokens; graphql is one outside the vocabulary.
FeatureToken ==
  [ actuator |-> <<"a","c","t","u","a","t","o","r">>,
    security |-> <<"s","e","c","u","r","i","t","y">>,
    validation |-> <<"v","a","l","i","d","a","t","i","o","n">>,
    modulith |-> <<"m","o","d","u","l","i","t","h">>,
    native |-> <<"n","a","t","i","v","e">>,
    webflux |-> <<"w","e","b","f","l","u","x">>,
    dockerCompose |->
        <<"d","o","c","k","e","r","-","c","o","m","p","o","s","e">>,
    graphql |-> <<"g","r","a","p","h","q","l">> ]

\* The Gradle dependency of each database.
GradleDependency ==
  [ postgresql |->
        <<"r","u","n","t","i","m","e","O","n","l","y","(","\"","o","r","g",
          ".","p","o","s","t","g","r","e","s","q","l",":","p","o","s","t","g",
          "r","e","s","q","l","\"",")">>,
    mysql |->
        <<"r","u","n","t","i","m","e","O","n","l","y","(","\"","c","o","m",
          ".","m","y","s","q","l",":","m","y","s","q","l","-","c","o","n","n",
          "e","c","t","o","r","-","j","\"",")">>,
    mongodb |->
        <<"i","m","p","l","e","m","e","n","t","a","t","i","o","n","(","\"",
          "o","r","g",".","s","p","r","i","n","g","f","r","a","m","e","w","o",
          "r","k",".","b","o","o","t",":","s","p","r","i","n","g","-","b","o",
          "o","t","-","s","t","a","r","t","e","r","-","d","a","t","a","-","m",
          "o","n","g","o","d","b","\"",")">>,
    h2 |->
        <<"r","u","n","t","i","m","e","O","n","l","y","(","\"","c","o","m",
          ".","h","2","d","a","t","a","b","a","s","e",":","h","2","\"",")">> ]

\* The Maven dependency of each database.
MavenDependency ==
  [ postgresql |->
        <<"<","g","r","o","u","p","I","d",">","o","r","g",".","p","o","s",
          "t","g","r","e","s","q","l","<","/","g","r","o","u","p","I","d",">",
          "<","a","r","t","i","f","a","c","t","I","d",">","p","o","s","t","g",
          "r","e","s","q","l","<","/","a","r","t","i","f","a","c","t","I","d",
          ">","<","s","c","o","p","e",">","r","u","n","t","i","m","e","<","/",
          "s","c","o","p","e",">">>,
    mysql |->
        <<"<","g","r","o","u","p","I","d",">","c","o","m",".","m","y","s",
          "q","l","<","/","g","r","o","u","p","I","d",">","<","a","r","t","i",
          "f","a","c","t","I","d",">","m","y","s","q","l","-","c","o","n","n",
          "e","c","t","o","r","-","j","<","/","a","r","t","i","f","a","c","t",
          "I","d",">","<","s","c","o","p","e",">","r","u","n","t","i","m","e",
          "<","/","s","c","o","p","e",">">>,
    mongodb |->
        <<"<","g","r","o","u","p","I","d",">","o","r","g",".","s","p","r",
          "i","n","g","f","r","a","m","e","w","o","r","k",".","b","o","o","t",
          "<","/","g","r","o","u","p","I","d",">","<","a","r","t","i","f","a",
          "c","t","I","d",">","s","p","r","i","n","g","-","b","o","o","t","-",
          "s","t","a","r","t","e","r","-","d","a","t","a","-","m","o","n","g",
          "o","d","b","<","/","a","r","t","i","f","a","c","t","I","d",">">>,
    h2 |->
        <<"<","g","r","o","u","p","I","d",">","c","o","m",".","h","2","d",
          "a","t","a","b","a","s","e","<","/","g","r","o","u","p","I","d",">",
          "<","a","r","t","i","f","a","c","t","I","d",">","h","2","<","/","a",
          "r","t","i","f","a","c","t","I","d",">","<","s","c","o","p","e",">",
          "r","u","n","t","i","m","e","<","/","s","c","o","p","e",">">> ]

\* The Spring Modulith starters.
ModulithDependency ==
  [ jpa |->
        <<"i","m","p","l","e","m","e","n","t","a","t","i","o","n","(","\"",
          "o","r","g",".","s","p","r","i","n","g","f","r","a","m","e","w","o",
          "r","k",".","m","o","d","u","l","i","t","h",":","s","p","r","i","n",
          "g","-","m","o","d","u","l","i","t","h","-","s","t","a","r","t","e",
          "r","-","j","p","a","\"",")">>,
    mongodb |->
        <<"i","m","p","l","e","m","e","n","t","a","t","i","o","n","(","\"",
          "o","r","g",".","s","p","r","i","n","g","f","r","a","m","e","w","o",
          "r","k",".","m","o","d","u","l","i","t","h",":","s","p","r","i","n",
          "g","-","m","o","d","u","l","i","t","h","-","s","t","a","r","t","e",
          "r","-","m","o","n","g","o","d","b","\"",")">> ]

\* Answers the wizard can return.
Answer ==
  [ gradle |-> <<"g","r","a","d","l","e">>,
    maven |-> <<"m","a","v","e","n">>,
    java25 |-> <<"2","5">>,
    java21 |-> <<"2","1">>,
    boot403 |-> <<"4",".","0",".","3">>,
    myService |-> <<"m","y","-","s","e","r","v","i","c","e">>,
    smokeTestProject |->
        <<"s","m","o","k","e","-","t","e","s","t","-","p","r","o","j","e",
          "c","t">>,
    a1b |-> <<"a","-","1","b">>,
    comExample |-> <<"c","o","m",".","e","x","a","m","p","l","e">>,
    c |-> <<"c">>,
    myApi |-> <<"M","y"," ","A","P","I">>,
    myApp |-> <<"m","y","_","a","p","p">>,
    comAcmeApp |-> <<"c","o","m",".","a","c","m","e",".","a","p","p">> ]

\* a || b.
Or(a, b) == IF Truthy(a) THEN a ELSE b

\* includes with a slip: only the first element is compared.
IncludesFirst(a, x) == Len(a) > 0 /\ a[1] = x

\* Array.prototype.includes(x) on the elements a: strict equality.
Includes(a, x) == \E n \in 1..Len(a) : a[n] = x

LowerSeq == <<"a","b","c","d","e","f","g","h","i","j","k","l","m",
              "n","o","p","q","r","s","t","u","v","w","x","y","z">>

UpperSeq == <<"A","B","C","D","E","F","G","H","I","J","K","L","M",
              "N","O","P","Q","R","S","T","U","V","W","X","Y","Z">>

\* c.toUpperCase() of one character.
toUpperCase(c) ==
  IF c \in Lower THEN UpperSeq[CHOOSE n \in 1..Len(LowerSeq) : LowerSeq[n] = c]
  ELSE c

\* str.replace(/(^|[-_])([a-z])/g, (_, __, c) => c.toUpperCase()) from
\* position i on: a lowercase letter at the start of the string, or after
\* one '-' or '_' (which is dropped), is upper-cased.
RECURSIVE ToPascalCaseFrom(_, _)
ToPascalCaseFrom(str, i) ==
  IF i > Len(str) THEN <<>>
  ELSE IF i = 1 /\ str[i] \in Lower
       THEN <<toUpperCase(str[i])>> \o ToPascalCaseFrom(str, i + 1)
  ELSE IF str[i] \in {"-", "_"} /\ i < Len(str) /\ str[i + 1] \in Lower
       THEN <<toUpperCase(str[i + 1])>> \o ToPascalCaseFrom(str, i + 2)
  ELSE <<str[i]>> \o ToPascalCaseFrom(str, i + 1)

\* toPascalCase with a slip: only the first letter is upper-cased.
toPascalCaseFirstOnly(str) ==
  IF str # <<>> /\ str[1] \in Lower THEN <<toUpperCase(str[1])>> \o Tail(str)
  ELSE str

toPascalCase(str) == ToPascalCaseFrom(str, 1)

\* The validate of the project-name question: /^[a-z][a-z0-9-]*$/.test(v).
validateProjectName(v) ==
  /\ v # <<>>
  /\ v[1] \in Lower
  /\ \A n \in 1..Len(v) : v[n] \in Lower \cup Digit \cup {"-"}

\* The replace of packagePath with a slip: only the first '.' is replaced.
DotsToSlashesFirstOnly(str) ==
  [n \in 1..Len(str) |->
     IF str[n] = "." /\ (\A m \in 1..(n - 1) : str[m] # ".") THEN "/" ELSE str[n]]

\* packageName.replace(/\./g, '/').
DotsToSlashes(str) == [n \in 1..Len(str) |-> IF str[n] = "." THEN "/" ELSE str[n]]

\* The object literal that maps a database token to its Gradle dependency.
dbDependencyTable ==
  (DbToken.postgresql :> Str(GradleDependency.postgresql)) @@ (DbToken.mysql :> Str(GradleDependency.mysql))
    @@ (DbToken.mongodb :> Str(GradleDependency.mongodb)) @@ (DbToken.h2 :> Str(GradleDependency.h2))
    @@ (DbToken.none :> Str(<<>>))

\* The object literal that maps a database token to its Maven dependency.
dbMavenDepTable ==
  (DbToken.postgresql :> Str(MavenDependency.postgresql)) @@ (DbToken.mysql :> Str(MavenDependency.mysql))
    @@ (DbToken.mongodb :> Str(MavenDependency.mongodb)) @@ (DbToken.h2 :> Str(MavenDependency.h2))
    @@ (DbToken.none :> Str(<<>>))

\* ['postgresql', 'mysql', 'h2'] of hasJpa with a slip: mongodb is in it.
jpaDatabasesWithMongodb ==
  <<Str(DbToken.postgresql), Str(DbToken.mysql), Str(DbToken.h2), Str(DbToken.mongodb)>>

\* The array literal ['postgresql', 'mysql', 'h2'] of hasJpa.
jpaDatabases == <<Str(DbToken.postgresql), Str(DbToken.mysql), Str(DbToken.h2)>>

\* modulithDataDep with a slip: the modulith feature is not looked at.
modulithDataDepAnyFeature(f, db) ==
  IF Includes(<<Str(DbToken.postgresql), Str(DbToken.mysql), Str(DbToken.h2)>>, db)
  THEN Str(ModulithDependency.jpa)
  ELSE IF db = Str(DbToken.mongodb) THEN Str(ModulithDependency.mongodb)
  ELSE Str(<<>>)

\* The modulithDataDep of buildContext.
modulithDataDep(f, db) ==
  IF ~Includes(f, Str(FeatureToken.modulith)) THEN Str(<<>>)
  ELSE IF Includes(<<Str(DbToken.postgresql), Str(DbToken.mysql), Str(DbToken.h2)>>, db)
       THEN Str(ModulithDependency.jpa)
  ELSE IF db = Str(DbToken.mongodb) THEN Str(ModulithDependency.mongodb)
  ELSE Str(<<>>)

\* buildContext(config) in the year `year`: the configuration's own
\* properties, overridden by the derived ones.
buildContext(config, year) ==
  LET db       == Lookup(config, PropertyName.database)
      features == Or(Lookup(config, PropertyName.features), Arr(<<>>))
      has(x)   == Bool(Includes(features.a, Str(x)))
  IN (PropertyName.appName :> Str(toPascalCase(Lookup(config, PropertyName.projectName).s)))
       @@ (PropertyName.packagePath :> Str(DotsToSlashes(Lookup(config, PropertyName.packageName).s)))
       @@ (PropertyName.features :> features)
       @@ (PropertyName.dbDependency :> Or(Lookup(dbDependencyTable, String(db)), Str(<<>>)))
       @@ (PropertyName.dbMavenDep :> Or(Lookup(dbMavenDepTable, String(db)), Str(<<>>)))
       @@ (PropertyName.hasJpa :> Bool(Includes(jpaDatabases, db)))
       @@ (PropertyName.hasMongo :> Bool(db = Str(DbToken.mongodb)))
       @@ (PropertyName.hasActuator :> has(FeatureToken.actuator))
       @@ (PropertyName.hasSecurity :> has(FeatureToken.security))
       @@ (PropertyName.hasValidation :> has(FeatureToken.validation))
       @@ (PropertyName.hasModulith :> has(FeatureToken.modulith))
       @@ (PropertyName.hasNative :> has(FeatureToken.native))
       @@ (PropertyName.hasWebFlux :> has(FeatureToken.webflux))
       @@ (PropertyName.hasDockerCompose :> has(FeatureToken.dockerCompose))
       @@ (PropertyName.enablePreview :> Bool(/\ Lookup(config, PropertyName.enablePreview) # Bool(FALSE)
                                  /\ Lookup(config, PropertyName.javaVersion) = Str(Answer.java25)))
       @@ (PropertyName.year :> Num(year))
       @@ (PropertyName.modulithDataDep :> modulithDataDep(features.a, db))
       @@ config

\* ------------------------------------------------------------------------
\* generateProject: the file-system operations of a run
\* ------------------------------------------------------------------------

\* The file and directory names the file generators use.
PathName ==
  [ srcMainJava |-> <<"s","r","c","/","m","a","i","n","/","j","a","v","a">>,
    srcMainResources |->
        <<"s","r","c","/","m","a","i","n","/","r","e","s","o","u","r","c",
          "e","s">>,
    srcTestJava |-> <<"s","r","c","/","t","e","s","t","/","j","a","v","a">>,
    pomXml |-> <<"p","o","m",".","x","m","l">>,
    buildGradleKts |->
        <<"b","u","i","l","d",".","g","r","a","d","l","e",".","k","t","s">>,
    applicationYaml |->
        <<"a","p","p","l","i","c","a","t","i","o","n",".","y","a","m","l">>,
    composeYaml |-> <<"c","o","m","p","o","s","e",".","y","a","m","l">>,
    applicationJava |->
        <<"A","p","p","l","i","c","a","t","i","o","n",".","j","a","v","a">>,
    applicationTestsJava |->
        <<"A","p","p","l","i","c","a","t","i","o","n","T","e","s","t","s",
          ".","j","a","v","a">>,
    orders |-> <<"o","r","d","e","r","s">>,
    inventory |-> <<"i","n","v","e","n","t","o","r","y">>,
    shared |-> <<"s","h","a","r","e","d">>,
    internal |-> <<"i","n","t","e","r","n","a","l">> ]

\* The template sets and the template files under TEMPLATES_DIR.
TemplateName ==
  [ maven |-> <<"m","a","v","e","n">>,
    gradleKotlin |-> <<"g","r","a","d","l","e","-","k","o","t","l","i","n">>,
    suffix |-> <<".","t","e","m","p","l","a","t","e">>,
    applicationJava |->
        <<"g","r","a","d","l","e","-","k","o","t","l","i","n","/","s","r",
          "c","/","m","a","i","n","/","j","a","v","a","/","c","o","m","/","e",
          "x","a","m","p","l","e","/","a","p","p","/","A","p","p","l","i","c",
          "a","t","i","o","n",".","j","a","v","a",".","t","e","m","p","l","a",
          "t","e">>,
    applicationYaml |->
        <<"g","r","a","d","l","e","-","k","o","t","l","i","n","/","s","r",
          "c","/","m","a","i","n","/","r","e","s","o","u","r","c","e","s","/",
          "a","p","p","l","i","c","a","t","i","o","n",".","y","a","m","l",".",
          "t","e","m","p","l","a","t","e">>,
    applicationTestsJava |->
        <<"g","r","a","d","l","e","-","k","o","t","l","i","n","/","s","r",
          "c","/","t","e","s","t","/","j","a","v","a","/","c","o","m","/","e",
          "x","a","m","p","l","e","/","a","p","p","/","A","p","p","l","i","c",
          "a","t","i","o","n","T","e","s","t","s",".","j","a","v","a",".","t",
          "e","m","p","l","a","t","e">>,
    composeYaml |->
        <<"g","r","a","d","l","e","-","k","o","t","l","i","n","/","c","o",
          "m","p","o","s","e",".","y","a","m","l",".","t","e","m","p","l","a",
          "t","e">> ]

\* Other texts of the generator and of the command line.
Text ==
  [ descriptionDefault |->
        <<"S","p","r","i","n","g"," ","B","o","o","t"," ","4"," ","m","i",
          "c","r","o","s","e","r","v","i","c","e">>,
    exitPromptError |->
        <<"E","x","i","t","P","r","o","m","p","t","E","r","r","o","r">>,
    error |-> <<"E","r","r","o","r">>,
    typeError |-> <<"T","y","p","e","E","r","r","o","r">>,
    eacces |-> <<"E","A","C","C","E","S">>,
    enospc |-> <<"E","N","O","S","P","C">>,
    eexist |-> <<"E","E","X","I","S","T">>,
    templates |-> <<"t","e","m","p","l","a","t","e","s">> ]

\* TEMPLATES_DIR, relative to the directory of the package.
TEMPLATES_DIR == Text.templates

\* path.join(...segs): the non-empty segments with '/' between them.
RECURSIVE join(_)
join(segs) ==
  IF segs = <<>> THEN <<>>
  ELSE LET rest == join(Tail(segs))
       IN IF Head(segs) = <<>> THEN rest
          ELSE IF rest = <<>> THEN Head(segs)
          ELSE Head(segs) \o <<"/">> \o rest

\* The calls a file generator makes, in the order it makes them.
MkdirCall(path) == [op |-> "mkdirSync", path |-> path]

RenderCall(templatePath) == [op |-> "renderTemplate", path |-> templatePath]

WriteCall(path) == [op |-> "writeFileSync", path |-> path]

\* resolve(process.cwd(), config.projectName), relative to the working
\* directory.
projectDir(config) == String(Lookup(config, PropertyName.projectName))

\* templateSet with a slip: the Gradle set whatever the build tool.
templateSetAlwaysGradle(config) == TemplateName.gradleKotlin

\* const templateSet = config.buildTool === 'maven' ? 'maven' : 'gradle-kotlin'
templateSet(config) ==
  IF Lookup(config, PropertyName.buildTool) = Str(Answer.maven)
  THEN TemplateName.maven
  ELSE TemplateName.gradleKotlin

generateBuildFile(dir, set, ctx) ==
  LET file == IF set = TemplateName.maven THEN PathName.pomXml
              ELSE PathName.buildGradleKts
  IN << RenderCall(join(<<TEMPLATES_DIR, set, file \o TemplateName.suffix>>)),
        WriteCall(join(<<dir, file>>)) >>

generateApplicationClass(dir, ctx) ==
  LET srcDir == join(<<dir, PathName.srcMainJava,
                       String(Lookup(ctx, PropertyName.packagePath))>>)
  IN << MkdirCall(srcDir),
        RenderCall(join(<<TEMPLATES_DIR, TemplateName.applicationJava>>)),
        WriteCall(join(<<srcDir, String(Lookup(ctx, PropertyName.appName))
                                   \o PathName.applicationJava>>)) >>

generateApplicationYaml(dir, ctx) ==
  LET resourcesDir == join(<<dir, PathName.srcMainResources>>)
  IN << MkdirCall(resourcesDir),
        RenderCall(join(<<TEMPLATES_DIR, TemplateName.applicationYaml>>)),
        WriteCall(join(<<resourcesDir, PathName.applicationYaml>>)) >>

generateApplicationTests(dir, ctx) ==
  LET testDir == join(<<dir, PathName.srcTestJava,
                        String(Lookup(ctx, PropertyName.packagePath))>>)
  IN << MkdirCall(testDir),
        RenderCall(join(<<TEMPLATES_DIR, TemplateName.applicationTestsJava>>)),
        WriteCall(join(<<testDir, String(Lookup(ctx, PropertyName.appName))
                                    \o PathName.applicationTestsJava>>)) >>

\* generateDockerCompose with a slip: the file is written before the
\* template is rendered.
generateDockerComposeWriteFirst(dir, ctx) ==
  << WriteCall(join(<<dir, PathName.composeYaml>>)),
     RenderCall(join(<<TEMPLATES_DIR, TemplateName.composeYaml>>)) >>

generateDockerCompose(dir, ctx) ==
  << RenderCall(join(<<TEMPLATES_DIR, TemplateName.composeYaml>>)),
     WriteCall(join(<<dir, PathName.composeYaml>>)) >>

\* const modules = ['orders', 'inventory', 'shared']
modules == <<PathName.orders, PathName.inventory, PathName.shared>>

generateModulithStructure(dir, ctx) ==
  [n \in 1..Len(modules) |->
     MkdirCall(join(<<dir, PathName.srcMainJava,
                      String(Lookup(ctx, PropertyName.packagePath)),
                      modules[n], PathName.internal>>))]

\* The statement if (cond) { calls } with a slip: the condition is ignored.
WhenAlways(cond, calls) == calls

\* The statement if (cond) { calls }.
When(cond, calls) == IF cond THEN calls ELSE <<>>

\* The body of the try block of generateProject after buildContext: the
\* file-system calls of the run, in order.
generateProject(config, ctx) ==
  LET dir      == projectDir(config)
      features == Lookup(ctx, PropertyName.features).a
  IN <<MkdirCall(dir)>>
       \o generateBuildFile(dir, templateSet(config), ctx)
       \o generateApplicationClass(dir, ctx)
       \o generateApplicationYaml(dir, ctx)
       \o generateApplicationTests(dir, ctx)
       \o When(Includes(features, Str(FeatureToken.dockerCompose)),
               generateDockerCompose(dir, ctx))
       \o When(Includes(features, Str(FeatureToken.modulith)),
               generateModulithStructure(dir, ctx))

\* The directories mkdirSync(path, { recursive: true }) makes sure exist:
\* the path and the directories above it.
Ancestors(path) ==
  {SubSeq(path, 1, n - 1) : n \in {m \in 2..Len(path) : path[m] = "/"}}
    \cup {path}

\* An error object: its name and, for a file-system error, its code.
Error(name, code) == [name |-> name, code |-> code]

\* No error.
NoError == Error(<<>>, <<>>)

\* mkdirSync without the recursive option: a directory that is there
\* already raises EEXIST.
mkdirSyncNotRecursive(ds, path) ==
  IF path \in ds
  THEN [dirs |-> ds, err |-> Error(Text.error, Text.eexist)]
  ELSE [dirs |-> ds \cup Ancestors(path), err |-> NoError]

\* mkdirSync(path, { recursive: true }) on the directories ds: the
\* directories after the call and the error it raises; a directory that is
\* there already is no error.
mkdirSync(ds, path) == [dirs |-> ds \cup Ancestors(path), err |-> NoError]

\* The catch block of generateProject with a slip: another error is thrown.
CatchWrapped(err) == Error(Text.error, <<>>)

\* catch (err) { spinner.fail('Generation failed'); throw err; }
Catch(err) == err

\* The catch block of the command with a slip: a cancelled prompt falls
\* through to the error exit.
ExitStatusNoCancel(err) == 1

\* The catch block of the command: process.exit(0) for a cancelled prompt,
\* process.exit(1) for every other error.
ExitStatus(err) == IF err.name = Text.exitPromptError THEN 0 ELSE 1

\* ------------------------------------------------------------------------
\* runWizard, the pure part
\* ------------------------------------------------------------------------

\* The property key: v of an object literal, left out when v is Undefined.
Prop(key, v) == [x \in {key} \ {y \in {key} : v = Undefined} |-> v]

\* const DEFAULTS = { projectName: 'my-service', ... }
DEFAULTS ==
  Prop(PropertyName.projectName, Str(Answer.myService))
    @@ Prop(PropertyName.packageName, Str(Answer.comExample))
    @@ Prop(PropertyName.description, Str(Text.descriptionDefault))
    @@ Prop(PropertyName.buildTool, Str(Answer.gradle))
    @@ Prop(PropertyName.javaVersion, Str(Answer.java25))
    @@ Prop(PropertyName.bootVersion, Str(Answer.boot403))
    @@ Prop(PropertyName.database, Str(DbToken.postgresql))
    @@ Prop(PropertyName.features,
            Arr(<<Str(FeatureToken.actuator), Str(FeatureToken.security),
                  Str(FeatureToken.validation)>>))

\* The return of the branch options.interactive === false with a slip:
\* the --maven option is not read.
nonInteractiveAnswersNoMaven(projectNameArg, options) ==
  Prop(PropertyName.projectName,
       Or(projectNameArg, Lookup(DEFAULTS, PropertyName.projectName)))
    @@ DEFAULTS

\* The return of the branch options.interactive === false:
\* { ...DEFAULTS, projectName: projectNameArg || DEFAULTS.projectName,
\*   buildTool: options.maven ? 'maven' : 'gradle' }
nonInteractiveAnswers(projectNameArg, options) ==
  Prop(PropertyName.projectName,
       Or(projectNameArg, Lookup(DEFAULTS, PropertyName.projectName)))
    @@ Prop(PropertyName.buildTool,
            IF options.maven THEN Str(Answer.maven) ELSE Str(Answer.gradle))
    @@ DEFAULTS

\* The names of the questions passed to inquirer.prompt, in their order.
questions ==
  << PropertyName.projectName, PropertyName.packageName,
     PropertyName.description, PropertyName.buildTool,
     PropertyName.javaVersion, PropertyName.bootVersion,
     PropertyName.database, PropertyName.minimal, PropertyName.features,
     PropertyName.enablePreview >>

\* The when of a question with a slip: every question is asked.
whenAlways(name, ans) == TRUE

\* The when of a question on the answers so far; a question without one is
\* asked.
when(name, ans) ==
  IF name = PropertyName.features
    THEN ~Truthy(Lookup(ans, PropertyName.minimal))
  ELSE IF name = PropertyName.enablePreview
    THEN Lookup(ans, PropertyName.javaVersion) = Str(Answer.java25)
  ELSE TRUE

\* if (answers.minimal) { answers.features = []; } return answers;
afterPrompt(answers) ==
  IF Truthy(Lookup(answers, PropertyName.minimal))
  THEN Prop(PropertyName.features, Arr(<<>>)) @@ answers
  ELSE answers

\* ------------------------------------------------------------------------
\* Templates and contexts the engine is run on
\* ------------------------------------------------------------------------

\* A template is written as a sequence of pieces: runs of literal text and
\* the markers of the template grammar.
Piece(kind, arg) == [kind |-> kind, arg |-> arg]

Lit(text) == Piece("lit", text)

Var(key) == Piece("var", key)

If(key) == Piece("if", key)

IfNot(key) == Piece("ifnot", key)

EndIfPiece == Piece("endif", <<>>)

Each(key) == Piece("each", key)

EndEachPiece == Piece("endeach", <<>>)

Item == Piece("item", <<>>)

\* The text of a piece.
PieceText(p) ==
  CASE p.kind = "lit"     -> p.arg
    [] p.kind = "var"     -> OpenVar \o p.arg \o CloseTag
    [] p.kind = "if"      -> OpenIf \o p.arg \o CloseTag
    [] p.kind = "ifnot"   -> OpenIf \o <<"!">> \o p.arg \o CloseTag
    [] p.kind = "endif"   -> EndIf
    [] p.kind = "each"    -> OpenEach \o p.arg \o CloseTag
    [] p.kind = "endeach" -> EndEach
    [] OTHER              -> ItemMarker

\* The text of a template: what readFileSync returns for its file.
TemplateText(pieces) == Concat([n \in 1..Len(pieces) |-> PieceText(pieces[n])])

\* All sequences over S of length lo..hi.
SeqsOf(S, lo, hi) == UNION {[1..n -> S] : n \in lo..hi}

\* Context keys: two own keys and an inherited name.
KeyK == <<"k">>

KeyXs == <<"x","s">>

KeyValueOf == ObjectPrototypeNames.valueOf

\* Text that spells out a conditional block on k.
CondText == OpenIf \o KeyK \o CloseTag \o <<"a">> \o EndIf

\* Marker-free literal text.
Texts == {<<>>, <<"a">>, <<"{">>, <<"}","}">>}

\* Values of a flag key; Undefined stands for a key the context lacks.
FlagValues ==
  { Undefined, Null, Bool(TRUE), Bool(FALSE), Num(0), Num(1), Num(10),
    Str(<<>>), Str(<<"a">>), Str(<<"f","a","l","s","e">>),
    Str(<<"$","&">>), Str(OpenVar \o KeyK \o CloseTag), Str(CondText),
    Arr(<<>>), Arr(<<Str(<<"a">>), Null, Num(1)>>) }

\* Elements of the arrays of an iteration key.
Elems == { Str(<<"a">>), Num(1), Str(<<"$","&">>), Str(OpenVar \o KeyK \o CloseTag) }

\* Values of an iteration key.
SeqValues ==
  { Undefined, Null, Bool(TRUE), Str(<<"a">>), Arr(<<Str(CondText)>>),
    Arr(<<Str(<<"$",GraveAccent>>), Str(<<"$","'">>), Str(<<"$","$">>)>>) }
    \cup { Arr(a) : a \in SeqsOf(Elems, 0, MaxItems) }

\* The object literal { k: kv, xs: xv }, a key left out when its value is
\* Undefined.
MkCtx(kv, xv) ==
  LET own == {KeyK : x \in {1} \ {n \in {1} : kv = Undefined}}
               \cup {KeyXs : x \in {1} \ {n \in {1} : xv = Undefined}}
  IN [key \in own |-> IF key = KeyK THEN kv ELSE xv]

\* A conditional block between two texts.
IfInputs ==
  { [tpl |-> <<Lit(A), open, body, EndIfPiece, Lit(C)>>, ctx |-> MkCtx(kv, Undefined)] :
      A \in Texts, C \in Texts,
      open \in {If(KeyK), IfNot(KeyK), If(KeyValueOf), IfNot(KeyValueOf)},
      body \in {Lit(B) : B \in Texts} \cup {Var(KeyK)},
      kv \in FlagValues }

\* Bodies of an iteration block.
EachBodies ==
  { <<>>, <<Lit(<<"x">>)>>, <<Lit(<<"(">>), Item, Lit(<<")">>)>>,
    <<Item, Item>>, <<Item, Var(KeyK)>> }

\* An iteration block between two texts.
EachInputs ==
  { [tpl |-> <<Lit(A), Each(key)>> \o body \o <<EndEachPiece, Lit(C)>>,
     ctx |-> MkCtx(kv, xv)] :
      A \in {<<>>, <<"a">>}, C \in {<<>>},
      key \in {KeyXs, KeyValueOf}, body \in EachBodies,
      kv \in {Undefined, Str(<<"v">>)}, xv \in SeqValues }

\* An iteration block inside a conditional block.
IfEachInputs ==
  { [tpl |-> <<open, Each(KeyXs)>> \o body \o <<EndEachPiece, EndIfPiece>>,
     ctx |-> MkCtx(kv, xv)] :
      open \in {If(KeyK)},
      body \in {<<Lit(<<"x">>)>>, <<Lit(<<"(">>), Item, Lit(<<")">>)>>, <<Item, Var(KeyK)>>},
      kv \in {Undefined, Bool(TRUE), Bool(FALSE), Num(0), Str(<<>>), Str(<<"a">>),
              Str(CondText), Arr(<<>>)},
      xv \in SeqValues }

\* Literal text and variable markers.
VarInputs ==
  { [tpl |-> ps, ctx |-> MkCtx(kv, Undefined)] :
      ps \in SeqsOf({Lit(<<"a">>), Lit(<<"{">>), Var(KeyK), Var(KeyValueOf)}, 1, MaxPieces),
      kv \in FlagValues }

\* Free-form templates: markers in any order, closed or not, and the
\* fragments markers are made of.
FreeInputs ==
  { [tpl |-> ps, ctx |-> c] :
      ps \in SeqsOf({Lit(<<"a">>), Lit(OpenVar), Lit(CloseTag), Var(KeyK),
                     If(KeyK), EndIfPiece, Each(KeyXs), EndEachPiece}, 0, MaxPieces),
      c \in {MkCtx(Undefined, Undefined),
             MkCtx(Bool(TRUE), Arr(<<Str(<<"a">>), Str(<<"b">>)>>))} }

\* A conditional block written inside another one:
\* {{#if a}}X{{#if b}}Y{{/if}}Z{{/if}}.
NestedIfInputs ==
  { [tpl |-> <<If(a), Lit(X), If(b), Lit(<<"y">>), EndIfPiece, Lit(Z), EndIfPiece>>,
     ctx |-> MkCtx(kv, xv)] :
      a \in {KeyK, KeyValueOf}, b \in {KeyK, KeyXs},
      X \in {<<>>, <<"x">>}, Z \in {<<>>, <<"z">>},
      kv \in {Undefined, Bool(TRUE), Bool(FALSE), Str(<<"a">>)},
      xv \in {Undefined, Bool(TRUE), Bool(FALSE), Arr(<<>>)} }

Inputs ==
  IfInputs \cup EachInputs \cup IfEachInputs \cup VarInputs \cup FreeInputs
    \cup NestedIfInputs

\* ------------------------------------------------------------------------
\* Configurations buildContext is run on
\* ------------------------------------------------------------------------

\* Database choices: the wizard's five, an unknown token, a missing one, and
\* tokens that are names of Object.prototype.
Databases ==
  { Str(DbToken.postgresql), Str(DbToken.mysql), Str(DbToken.mongodb), Str(DbToken.h2), Str(DbToken.none),
    Str(DbToken.oracle), Undefined,
    Str(ObjectPrototypeNames.toString), Str(ObjectPrototypeNames.__proto__) }

FeatureTokens ==
  { FeatureToken.actuator, FeatureToken.security, FeatureToken.validation, FeatureToken.modulith, FeatureToken.native, FeatureToken.webflux,
    FeatureToken.dockerCompose, FeatureToken.graphql }

\* Feature lists: a missing list, and every list of at most MaxFeatures tokens.
FeatureLists ==
  {Undefined} \cup {Arr([n \in DOMAIN fs |-> Str(fs[n])]) : fs \in SeqsOf(FeatureTokens, 0, MaxFeatures)}

\* Project and package names.
Names ==
  { <<Answer.myService, Answer.comExample>>, <<Answer.smokeTestProject, Answer.comExample>>,
    <<Answer.a1b, Answer.c>>, <<Answer.myApp, Answer.comAcmeApp>> }

\* The other answers of the wizard: build tool, Java version, preview flag,
\* description.
Profiles ==
  { <<Str(Answer.gradle), Str(Answer.java25), Undefined, Undefined>>,
    <<Str(Answer.maven), Str(Answer.java21), Bool(TRUE), Str(Answer.myApi)>>,
    <<Str(Answer.gradle), Str(Answer.java25), Bool(FALSE), Str(Answer.myApi)>> }

Configs ==
  { Prop(PropertyName.projectName, Str(nm[1])) @@ Prop(PropertyName.packageName, Str(nm[2]))
      @@ Prop(PropertyName.database, db) @@ Prop(PropertyName.features, fl)
      @@ Prop(PropertyName.buildTool, pr[1]) @@ Prop(PropertyName.javaVersion, pr[2])
      @@ Prop(PropertyName.enablePreview, pr[3]) @@ Prop(PropertyName.description, pr[4])
      @@ Prop(PropertyName.bootVersion, Str(Answer.boot403)) :
      nm \in Names, db \in Databases, fl \in FeatureLists, pr \in Profiles }

\* The years new Date().getFullYear() may return.
Years == {2025, 2026}

\* Build tools of a run: the wizard's two and a missing one.
RunBuildTools == {Str(Answer.gradle), Str(Answer.maven), Undefined}

\* Feature lists of a run: a missing list, and every list of at most
\* MaxFeatures tokens, the tokens that select an artifact among them.
RunFeatureLists ==
  {Undefined}
    \cup {Arr([n \in DOMAIN fs |-> Str(fs[n])]) :
            fs \in SeqsOf({FeatureToken.dockerCompose, FeatureToken.modulith,
                           FeatureToken.actuator, FeatureToken.graphql},
                          0, MaxFeatures)}

\* The configurations runWizard hands to generateProject.
RunConfigs ==
  { Prop(PropertyName.projectName, Str(nm[1])) @@ Prop(PropertyName.packageName, Str(nm[2]))
      @@ Prop(PropertyName.description, Str(Text.descriptionDefault))
      @@ Prop(PropertyName.buildTool, bt) @@ Prop(PropertyName.javaVersion, Str(Answer.java25))
      @@ Prop(PropertyName.bootVersion, Str(Answer.boot403))
      @@ Prop(PropertyName.database, Str(DbToken.postgresql))
      @@ Prop(PropertyName.features, fl) :
      nm \in Names, bt \in RunBuildTools, fl \in RunFeatureLists }

\* The project-name argument of the command line: none, an empty one, a
\* name.
ProjectNameArgs == {Undefined, Str(<<>>), Str(Answer.smokeTestProject)}

\* The command lines: the argument, and the options as commander hands
\* them over (interactive is false with --no-interactive, maven is set with
\* --maven).
Argvs ==
  [projectName : ProjectNameArgs, interactive : BOOLEAN, maven : BOOLEAN]

\* The answers the user can give to a question of the wizard: for an input
\* the default taken over or a text that passes the validate, for a list
\* one of its choices, for the checkbox some of its boxes.
Replies(name, projectNameArg) ==
  CASE name = PropertyName.projectName ->
         { Or(projectNameArg, Lookup(DEFAULTS, PropertyName.projectName)),
           Str(Answer.a1b) }
    [] name = PropertyName.packageName -> {Str(Answer.comExample)}
    [] name = PropertyName.description -> {Str(Text.descriptionDefault)}
    [] name = PropertyName.buildTool -> {Str(Answer.gradle), Str(Answer.maven)}
    [] name = PropertyName.javaVersion -> {Str(Answer.java25), Str(Answer.java21)}
    [] name = PropertyName.bootVersion -> {Str(Answer.boot403)}
    [] name = PropertyName.database -> {Str(DbToken.postgresql), Str(DbToken.none)}
    [] name = PropertyName.minimal -> {Bool(TRUE), Bool(FALSE)}
    [] name = PropertyName.features ->
         { Arr(<<>>),
           Arr(<<Str(FeatureToken.actuator), Str(FeatureToken.security),
                 Str(FeatureToken.validation)>>),
           Arr(<<Str(FeatureToken.modulith), Str(FeatureToken.dockerCompose)>>),
           Arr(<<Str(FeatureToken.dockerCompose)>>) }
    [] name = PropertyName.enablePreview -> {Bool(TRUE), Bool(FALSE)}

\* The errors a file-system call can raise.
FsErrors == {Error(Text.error, Text.eacces), Error(Text.error, Text.enospc)}

\* The errors runWizard can raise: a cancelled prompt, and any other error.
WizardErrors == {Error(Text.exitPromptError, <<>>), Error(Text.typeError, <<>>)}

\* ------------------------------------------------------------------------
\* renderTemplate as a state machine
\* ------------------------------------------------------------------------

VARIABLES
  tpl,     \* the template file at templatePath, as pieces
  ctx,     \* the context passed to renderTemplate
  source,  \* the local variable source of renderTemplate
  pc,      \* the statement renderTemplate is about to run
  config,  \* the configuration passed to the generator
  built,   \* the context buildContext returned
  gpc,     \* the statement the command and the generator are about to run
  dirs,    \* the directories below the working directory
  files,   \* the files below the working directory, with their content
  content, \* the local variable content of the file generator running
  log,     \* the file-system calls of the run so far
  thrown,  \* the error thrown to the catch block of the command
  out,     \* what the spinner and the console have reported so far
  exit,    \* the exit status, empty while the process runs
  argv,    \* the project-name argument and the options of the command line
  prompts  \* the questions of the wizard so far, asked or passed over

engineVars == <<tpl, ctx, source, pc>>

runVars == <<dirs, files, content, log, thrown, out, exit>>

wizardVars == <<argv, prompts>>

genVars == <<config, built, gpc, runVars, wizardVars>>

vars == <<tpl, ctx, source, pc, config, built, gpc,
          dirs, files, content, log, thrown, out, exit, argv, prompts>>

\* An empty working directory and a process that has reported nothing.
RunIdle ==
  /\ dirs = {} /\ files = {} /\ content = <<>> /\ log = <<>>
  /\ thrown = NoError /\ out = <<>> /\ exit = <<>>

\* No command line read and no question put.
WizardIdle == argv = <<>> /\ prompts = <<>>

\* The generator, not running.
GenIdle ==
  config = <<>> /\ built = <<>> /\ gpc = "idle" /\ RunIdle /\ WizardIdle

\* The engine, not running.
EngineIdle == tpl = <<>> /\ ctx = <<>> /\ source = <<>> /\ pc = "idle"

Init ==
  /\ \E in \in Inputs : tpl = in.tpl /\ ctx = in.ctx
  /\ source = <<>>
  /\ pc = "read"
  /\ GenIdle

\* let source = readFileSync(templatePath, 'utf8')
ReadTemplate ==
  /\ pc = "read"
  /\ source' = TemplateText(tpl)
  /\ pc' = "if"
  /\ UNCHANGED <<tpl, ctx>>
  /\ UNCHANGED genVars

\* source = processIf(source, ctx)
ProcessIfStep ==
  /\ pc = "if"
  /\ source' = RenderPass(1, source, ctx)
  /\ pc' = "each"
  /\ UNCHANGED <<tpl, ctx>>
  /\ UNCHANGED genVars

\* source = processEach(source, ctx)
ProcessEachStep ==
  /\ pc = "each"
  /\ source' = RenderPass(2, source, ctx)
  /\ pc' = "interpolate"
  /\ UNCHANGED <<tpl, ctx>>
  /\ UNCHANGED genVars

\* source = interpolate(source, ctx); return source
InterpolateStep ==
  /\ pc = "interpolate"
  /\ source' = RenderPass(3, source, ctx)
  /\ pc' = "done"
  /\ UNCHANGED <<tpl, ctx>>
  /\ UNCHANGED genVars

Next == ReadTemplate \/ ProcessIfStep \/ ProcessEachStep \/ InterpolateStep

Spec == Init /\ [][Next]_vars

\* ------------------------------------------------------------------------
\* The generator as a state machine
\* ------------------------------------------------------------------------

GenInit ==
  /\ config \in Configs
  /\ built = <<>>
  /\ gpc = "buildContext"
  /\ RunIdle
  /\ WizardIdle
  /\ EngineIdle

\* const ctx = buildContext(config)
BuildContext ==
  /\ gpc = "buildContext"
  /\ \E year \in Years : built' = buildContext(config, year)
  /\ gpc' = "built"
  /\ UNCHANGED config
  /\ UNCHANGED runVars
  /\ UNCHANGED engineVars
  /\ UNCHANGED wizardVars

GenNext == BuildContext

GenSpec == GenInit /\ [][GenNext]_vars

\* ------------------------------------------------------------------------
\* The command: runWizard, then generateProject, as a state machine
\* ------------------------------------------------------------------------

RunInit ==
  /\ config = <<>>
  /\ built = <<>>
  /\ gpc = "runWizard"
  /\ RunIdle
  /\ WizardIdle
  /\ EngineIdle

\* const answers = await runWizard(projectName, options), returning.
RunWizardReturns ==
  /\ gpc = "runWizard"
  /\ config' \in RunConfigs
  /\ gpc' = "generateProject"
  /\ UNCHANGED <<built, runVars>>
  /\ UNCHANGED engineVars
  /\ UNCHANGED wizardVars

\* runWizard raising: the error reaches the catch block of the command.
RunWizardThrows ==
  /\ gpc = "runWizard"
  /\ thrown' \in WizardErrors
  /\ gpc' = "catch"
  /\ UNCHANGED <<config, built, dirs, files, content, log, out, exit>>
  /\ UNCHANGED engineVars
  /\ UNCHANGED wizardVars

\* const spinner = ora('Generating project...').start()
StartSpinner ==
  /\ gpc = "generateProject"
  /\ out' = Append(out, "spinner.start")
  /\ gpc' = "buildContext"
  /\ UNCHANGED <<config, built, dirs, files, content, log, thrown, exit>>
  /\ UNCHANGED engineVars
  /\ UNCHANGED wizardVars

\* The file-system calls of the run.
Calls == generateProject(config, built)

\* The run is inside the try block and has a call left to make.
Running == gpc = "built" /\ Len(log) < Len(Calls)

\* The call the run is about to make.
NextCall == Calls[Len(log) + 1]

\* A call that returned, as the log keeps it.
Returned(call) == [op |-> call.op, path |-> call.path, err |-> NoError]

\* A call that raised err, as the log keeps it.
Raised(call, err) == [op |-> call.op, path |-> call.path, err |-> err]

\* mkdirSync(path, { recursive: true }) by its own outcome: it returns, or
\* it raises and the catch block of generateProject takes over.
MkdirSync ==
  /\ Running
  /\ NextCall.op = "mkdirSync"
  /\ LET made == mkdirSync(dirs, NextCall.path)
     IN IF made.err = NoError
        THEN /\ dirs' = made.dirs
             /\ log' = Append(log, Returned(NextCall))
             /\ UNCHANGED <<gpc, thrown, out>>
        ELSE /\ log' = Append(log, Raised(NextCall, made.err))
             /\ thrown' = Catch(made.err)
             /\ out' = Append(out, "spinner.fail")
             /\ gpc' = "catch"
             /\ UNCHANGED dirs
  /\ UNCHANGED <<config, built, files, content, exit>>
  /\ UNCHANGED engineVars
  /\ UNCHANGED wizardVars

\* const content = renderTemplate(templatePath, ctx), returning: the
\* content is the template at templatePath rendered with the context.
RenderTemplate ==
  /\ Running
  /\ NextCall.op = "renderTemplate"
  /\ content' = NextCall.path
  /\ log' = Append(log, Returned(NextCall))
  /\ UNCHANGED <<config, built, gpc, dirs, files, thrown, out, exit>>
  /\ UNCHANGED engineVars
  /\ UNCHANGED wizardVars

\* writeFileSync(path, content), returning: the file is created or
\* overwritten.
WriteFileSync ==
  /\ Running
  /\ NextCall.op = "writeFileSync"
  /\ files' = {f \in files : f.path # NextCall.path}
                \cup {[path |-> NextCall.path, content |-> content]}
  /\ log' = Append(log, Returned(NextCall))
  /\ UNCHANGED <<config, built, gpc, dirs, content, thrown, out, exit>>
  /\ UNCHANGED engineVars
  /\ UNCHANGED wizardVars

\* A file-system call raising: the catch block of generateProject reports
\* the failure and throws the error on to the command.
FsCallThrows ==
  /\ Running
  /\ \E err \in FsErrors :
       /\ log' = Append(log, Raised(NextCall, err))
       /\ thrown' = Catch(err)
  /\ out' = Append(out, "spinner.fail")
  /\ gpc' = "catch"
  /\ UNCHANGED <<config, built, dirs, files, content, exit>>
  /\ UNCHANGED engineVars
  /\ UNCHANGED wizardVars

\* The success report with a slip: it does not wait for the generators.
SucceedEarly ==
  /\ gpc = "built"
  /\ out' = out \o <<"spinner.succeed", "printNextSteps">>
  /\ gpc' = "done"
  /\ UNCHANGED <<config, built, dirs, files, content, log, thrown, exit>>
  /\ UNCHANGED engineVars
  /\ UNCHANGED wizardVars

\* spinner.succeed(...); printNextSteps(config, projectDir); the command
\* has nothing left to do.
Succeed ==
  /\ gpc = "built"
  /\ Len(log) = Len(Calls)
  /\ out' = out \o <<"spinner.succeed", "printNextSteps">>
  /\ gpc' = "done"
  /\ UNCHANGED <<config, built, dirs, files, content, log, thrown, exit>>
  /\ UNCHANGED engineVars
  /\ UNCHANGED wizardVars

\* The catch block of the command: a message, then process.exit.
CatchExit ==
  /\ gpc = "catch"
  /\ out' = Append(out, IF thrown.name = Text.exitPromptError
                        THEN "console.log Cancelled"
                        ELSE "console.error Error")
  /\ exit' = <<ExitStatus(thrown)>>
  /\ gpc' = "exited"
  /\ UNCHANGED <<config, built, dirs, files, content, log, thrown>>
  /\ UNCHANGED engineVars
  /\ UNCHANGED wizardVars

RunNext ==
  \/ RunWizardReturns \/ RunWizardThrows \/ StartSpinner \/ BuildContext
  \/ MkdirSync \/ RenderTemplate \/ WriteFileSync \/ FsCallThrows
  \/ Succeed \/ CatchExit

RunSpec == RunInit /\ [][RunNext]_vars

\* ------------------------------------------------------------------------
\* generateProject called again in the same working directory
\* ------------------------------------------------------------------------

\* The runs of generateProject started so far.
Runs == Cardinality({n \in 1..Len(out) : out[n] = "spinner.start"})

\* The configurations of a re-run: those with a build tool, as runWizard
\* returns them.
RerunInit ==
  /\ config \in {c \in RunConfigs :
                   Lookup(c, PropertyName.buildTool) # Undefined}
  /\ built = <<>>
  /\ gpc = "generateProject"
  /\ RunIdle
  /\ WizardIdle
  /\ EngineIdle

\* generateProject(config) called again with the same configuration: the
\* directories and files of the earlier run are there.
Rerun ==
  /\ gpc = "done"
  /\ Runs < MaxRuns
  /\ gpc' = "generateProject"
  /\ built' = <<>>
  /\ log' = <<>>
  /\ content' = <<>>
  /\ UNCHANGED <<config, dirs, files, thrown, out, exit>>
  /\ UNCHANGED engineVars
  /\ UNCHANGED wizardVars

RerunNext ==
  \/ StartSpinner \/ BuildContext \/ MkdirSync \/ RenderTemplate
  \/ WriteFileSync \/ Succeed \/ Rerun

RerunSpec == RerunInit /\ [][RerunNext]_vars

\* ------------------------------------------------------------------------
\* The command with the questions of the wizard
\* ------------------------------------------------------------------------

WizardInit ==
  /\ argv \in Argvs
  /\ prompts = <<>>
  /\ config = <<>>
  /\ built = <<>>
  /\ gpc = "runWizard"
  /\ RunIdle
  /\ EngineIdle

\* runWizard(projectName, options): with options.interactive === false it
\* returns at once, otherwise it goes on to inquirer.prompt.
RunWizard ==
  /\ gpc = "runWizard"
  /\ IF argv.interactive = FALSE
     THEN /\ config' = nonInteractiveAnswers(argv.projectName, argv)
          /\ gpc' = "generateProject"
     ELSE /\ gpc' = "prompt"
          /\ UNCHANGED config
  /\ UNCHANGED <<built, runVars, wizardVars>>
  /\ UNCHANGED engineVars

\* inquirer.prompt at its next question: the question is asked and the
\* reply kept under its name, or its when is false and it is passed over.
Ask ==
  /\ gpc = "prompt"
  /\ Len(prompts) < Len(questions)
  /\ LET name == questions[Len(prompts) + 1]
     IN IF when(name, config)
        THEN /\ \E reply \in Replies(name, argv.projectName) :
                  config' = Prop(name, reply) @@ config
             /\ prompts' = Append(prompts, [name |-> name, asked |-> TRUE])
        ELSE /\ prompts' = Append(prompts, [name |-> name, asked |-> FALSE])
             /\ UNCHANGED config
  /\ UNCHANGED <<built, gpc, runVars, argv>>
  /\ UNCHANGED engineVars

\* The user leaves the prompt (Ctrl-C): inquirer rejects with an
\* ExitPromptError, which reaches the catch block of the command.
PromptCancelled ==
  /\ gpc = "prompt"
  /\ Len(prompts) < Len(questions)
  /\ thrown' = Error(Text.exitPromptError, <<>>)
  /\ gpc' = "catch"
  /\ UNCHANGED <<config, built, dirs, files, content, log, out, exit>>
  /\ UNCHANGED wizardVars
  /\ UNCHANGED engineVars

\* inquirer.prompt resolved: runWizard returns the answers.
PromptReturns ==
  /\ gpc = "prompt"
  /\ Len(prompts) = Len(questions)
  /\ config' = afterPrompt(config)
  /\ gpc' = "generateProject"
  /\ UNCHANGED <<built, runVars, wizardVars>>
  /\ UNCHANGED engineVars

WizardNext ==
  \/ RunWizard \/ Ask \/ PromptCancelled \/ PromptReturns
  \/ StartSpinner \/ BuildContext
  \/ MkdirSync \/ RenderTemplate \/ WriteFileSync
  \/ Succeed \/ CatchExit

WizardSpec == WizardInit /\ [][WizardNext]_vars

\* ------------------------------------------------------------------------
\* Reading the template of a state
\* ------------------------------------------------------------------------

\* The own property key of the context, Undefined when the context lacks it.
OwnValue(key) == IF key \in DOMAIN ctx THEN ctx[key] ELSE Undefined

\* s contains the character c.
HasChar(s, c) == \E n \in 1..Len(s) : s[n] = c

\* A{{#if k}}X{{/if}}C or A{{#if !k}}X{{/if}}C, X a text or a variable marker.
IsIfTemplate ==
  /\ Len(tpl) = 5
  /\ tpl[1].kind = "lit"
  /\ tpl[2].kind \in {"if", "ifnot"}
  /\ tpl[3].kind \in {"lit", "var"}
  /\ tpl[4].kind = "endif"
  /\ tpl[5].kind = "lit"

\* A{{#each xs}}BODY{{/each}}C, BODY made of text, item and variable markers.
IsEachTemplate ==
  /\ Len(tpl) >= 4
  /\ tpl[1].kind = "lit"
  /\ tpl[2].kind = "each"
  /\ \A n \in 3..(Len(tpl) - 2) : tpl[n].kind \in {"lit", "item", "var"}
  /\ tpl[Len(tpl) - 1].kind = "endeach"
  /\ tpl[Len(tpl)].kind = "lit"

\* {{#if k}}{{#each xs}}BODY{{/each}}{{/if}}.
IsIfEachTemplate ==
  /\ Len(tpl) >= 4
  /\ tpl[1].kind = "if"
  /\ tpl[2].kind = "each"
  /\ \A n \in 3..(Len(tpl) - 2) : tpl[n].kind \in {"lit", "item", "var"}
  /\ tpl[Len(tpl) - 1].kind = "endeach"
  /\ tpl[Len(tpl)].kind = "endif"

\* Text and variable markers only, the text unable to close a marker.
IsVarTemplate ==
  /\ Len(tpl) >= 1
  /\ \A n \in 1..Len(tpl) :
       \/ tpl[n].kind = "var"
       \/ tpl[n].kind = "lit" /\ ~HasChar(tpl[n].arg, "}")

\* The text has a variable marker {{key}}.
HasVarMarker(s) ==
  \E i \in 1..Len(s) :
    /\ StartsWithAt(s, i, OpenVar)
    /\ \E j \in (i + 3)..Len(s) :
         /\ StartsWithAt(s, j, CloseTag)
         /\ \A m \in (i + 2)..(j - 1) : s[m] \in WordChars

\* The text has a block: an opening marker open (after it a '!' when bang),
\* a key, and a closing marker close somewhere behind it.
HasBlock(s, open, bang, close) ==
  \E i \in 1..Len(s) :
    /\ StartsWithAt(s, i, open \o bang)
    /\ \E j \in (i + Len(open \o bang) + 1)..Len(s) :
         /\ StartsWithAt(s, j, CloseTag)
         /\ \A m \in (i + Len(open \o bang))..(j - 1) : s[m] \in WordChars
         /\ \E c \in (j + 2)..Len(s) : StartsWithAt(s, c, close)

\* The text has no marker of any of the three kinds.
IsClean(s) ==
  /\ ~HasVarMarker(s)
  /\ ~HasBlock(s, OpenIf, <<>>, EndIf)
  /\ ~HasBlock(s, OpenIf, <<"!">>, EndIf)
  /\ ~HasBlock(s, OpenEach, <<>>, EndEach)

\* A copy of an iteration body for the element e, as the iteration law
\* describes it: the item markers replaced by the element's string.
ExpectedCopy(body, e) ==
  TemplateText([n \in 1..Len(body) |->
                  IF body[n].kind = "item" THEN Lit(String(e)) ELSE body[n]])

\* The pieces between the outermost opening and closing markers of an
\* iteration template.
EachBody == SubSeq(tpl, 3, Len(tpl) - 2)

\* ------------------------------------------------------------------------
\* Claims about the template engine
\* ------------------------------------------------------------------------

\* C1: Conditional inclusion law.  For marker-free texts A, B, C and every
\* key k, A{{#if k}}B{{/if}}C renders as A+B+C when the context value of k
\* is true, and as A+C when it is false or the context has no key k.
C1_ConditionalInclusion ==
  (pc = "done" /\ IsIfTemplate /\ tpl[2].kind = "if" /\ tpl[3].kind = "lit") =>
    LET v == OwnValue(tpl[2].arg)
    IN /\ v = Bool(TRUE) => source = tpl[1].arg \o tpl[3].arg \o tpl[5].arg
       /\ v \in {Bool(FALSE), Undefined} => source = tpl[1].arg \o tpl[5].arg

\* C2: Negation law.  For a marker-free body B, {{#if !k}}B{{/if}} renders as
\* the empty string when the value of k is true and as B when it is false;
\* for every value of k the negated block is included exactly when the
\* block without the negation, on the same key, is omitted.
C2_Negation ==
  (pc = "done" /\ IsIfTemplate /\ tpl[2].kind = "ifnot" /\ tpl[3].kind = "lit") =>
    LET v      == OwnValue(tpl[2].arg)
        with   == tpl[1].arg \o tpl[3].arg \o tpl[5].arg
        wout   == tpl[1].arg \o tpl[5].arg
        plain  == Render(TemplateText([tpl EXCEPT ![2] = If(tpl[2].arg)]), ctx)
    IN /\ v = Bool(TRUE) => source = wout
       /\ v = Bool(FALSE) => source = with
       /\ source \in {with, wout}
       /\ tpl[3].arg # <<>> => (source = with <=> plain = wout)

C2_Witness ==
  /\ pc = "done" /\ IsIfTemplate /\ tpl[2].kind = "ifnot"
  /\ OwnValue(tpl[2].arg) = Bool(FALSE)
  /\ tpl[3] = Lit(<<"a">>)
  /\ source = tpl[1].arg \o <<"a">> \o tpl[5].arg

\* C3: Iteration law.  For {{#each xs}}BODY{{/each}} and a sequence xs of n
\* elements the output is n copies of BODY, the item marker replaced by the
\* i-th element, in sequence order with no separator; when xs is null, absent
\* or no sequence the block renders as the empty string.  (Stated for bodies
\* without variable markers and elements without braces.)
C3_IterationLaw ==
  (/\ pc = "done" /\ IsEachTemplate
   /\ \A n \in 1..Len(EachBody) : EachBody[n].kind # "var"
   /\ \A n \in 1..Len(OwnValue(tpl[2].arg).a) :
        ~HasChar(String(OwnValue(tpl[2].arg).a[n]), "{")) =>
    LET v == OwnValue(tpl[2].arg)
    IN source = tpl[1].arg
                  \o (IF IsArray(v)
                      THEN Concat([n \in 1..Len(v.a) |-> ExpectedCopy(EachBody, v.a[n])])
                      ELSE <<>>)
                  \o tpl[Len(tpl)].arg

\* C4: Missing-key safety.  For a key the context lacks, a variable marker
\* renders as the empty string, a conditional block on it (not negated)
\* renders as empty, and an iteration block on it renders as empty.
C4_MissingKeySafety ==
  /\ (pc = "done" /\ IsVarTemplate) =>
       source = TemplateText([n \in 1..Len(tpl) |->
                  IF tpl[n].kind = "var"
                  THEN (IF tpl[n].arg \in DOMAIN ctx
                        THEN Lit(InterpolateReplacement(tpl[n].arg, ctx))
                        ELSE Lit(<<>>))
                  ELSE tpl[n]])
  /\ (/\ pc = "done" /\ IsIfTemplate /\ tpl[2].kind = "if" /\ tpl[3].kind = "lit"
      /\ tpl[2].arg \notin DOMAIN ctx) =>
       source = tpl[1].arg \o tpl[5].arg
  /\ (pc = "done" /\ IsEachTemplate /\ tpl[2].arg \notin DOMAIN ctx) =>
       source = tpl[1].arg \o tpl[Len(tpl)].arg

\* C5: Pass ordering.  For {{#if k}}{{#each xs}}BODY{{/each}}{{/if}} the
\* conditional pass runs first and leaves the iteration block when k is
\* truthy and nothing when k is falsy; the iteration pass then expands what
\* is left, the interpolation pass comes last, and the output is the
\* rendering of the iteration block alone (k truthy) or empty (k falsy).
C5_PassOrdering ==
  IsIfEachTemplate =>
    LET keep  == Truthy(Lookup(ctx, tpl[1].arg))
        block == TemplateText(SubSeq(tpl, 2, Len(tpl) - 1))
    IN /\ pc = "each" => source = (IF keep THEN block ELSE <<>>)
       /\ pc = "interpolate" =>
            source = (IF keep THEN processEach(block, ctx) ELSE <<>>)
       /\ pc = "done" => source = (IF keep THEN Render(block, ctx) ELSE <<>>)

C5_Witness ==
  /\ pc = "done" /\ IsIfEachTemplate
  /\ OwnValue(KeyK) = Str(<<"a">>)
  /\ OwnValue(KeyXs) = Arr(<<Str(<<"a">>), Num(1)>>)
  /\ EachBody = <<Lit(<<"(">>), Item, Lit(<<")">>)>>
  /\ source = <<"(","a",")","(","1",")">>

\* C6: The decision of a conditional block depends only on the value of its
\* key in the context: text that the iteration or the interpolation pass
\* inserts and that spells out {{#if k}}a{{/if}} is never evaluated as a
\* conditional, whatever the value of k.
C6_ConditionalFromContextOnly ==
  /\ (/\ pc = "done" /\ IsVarTemplate
      /\ OwnValue(KeyK) = Str(CondText)) =>
       source = TemplateText([n \in 1..Len(tpl) |->
                  IF tpl[n] = Var(KeyK) THEN Lit(CondText)
                  ELSE IF tpl[n].kind = "var" THEN Lit(String(Lookup(ctx, tpl[n].arg)))
                  ELSE tpl[n]])
  /\ (/\ pc = "done" /\ IsIfTemplate /\ tpl[2] = If(KeyK) /\ tpl[3] = Var(KeyK)
      /\ OwnValue(KeyK) = Str(CondText)) =>
       source = tpl[1].arg \o CondText \o tpl[5].arg
  /\ (/\ pc = "done" /\ IsEachTemplate /\ tpl[2].arg = KeyXs
      /\ OwnValue(KeyXs) = Arr(<<Str(CondText)>>)) =>
       source = tpl[1].arg
                  \o interpolate(ExpectedCopy(EachBody, Str(CondText)), ctx)
                  \o tpl[Len(tpl)].arg
  /\ (/\ pc = "done" /\ IsIfEachTemplate /\ Truthy(Lookup(ctx, tpl[1].arg))
      /\ OwnValue(KeyXs) = Arr(<<Str(CondText)>>)) =>
       source = interpolate(ExpectedCopy(EachBody, Str(CondText)), ctx)

C6_Witness ==
  /\ pc = "done" /\ IsEachTemplate /\ tpl[2].arg = KeyXs
  /\ OwnValue(KeyXs) = Arr(<<Str(CondText)>>)
  /\ OwnValue(KeyK) = Undefined
  /\ EachBody = <<Lit(<<"(">>), Item, Lit(<<")">>)>>
  /\ source = tpl[1].arg \o <<"(">> \o CondText \o <<")">> \o tpl[Len(tpl)].arg

ExpectedString(v) ==
  CASE v = Bool(FALSE) -> <<"f","a","l","s","e">>
    [] v = Bool(TRUE)  -> <<"t","r","u","e">>
    [] v = Num(0)      -> <<"0">>
    [] v = Num(1)      -> <<"1">>
    [] v.t = "string"  -> v.s
    [] OTHER           -> String(v)

\* C8: Interpolation.  In a template of text and variable markers every
\* occurrence of every marker whose value is neither undefined nor null is
\* replaced by the value's string representation (false gives "false", 0
\* gives "0", "" gives ""), and the markers of undefined or null values by
\* the empty string.
C8_Interpolation ==
  (pc = "done" /\ IsVarTemplate) =>
    source = TemplateText([n \in 1..Len(tpl) |->
               IF tpl[n].kind = "var"
               THEN (LET v == Lookup(ctx, tpl[n].arg)
                     IN IF v \in {Undefined, Null} THEN Lit(<<>>)
                        ELSE Lit(ExpectedString(v)))
               ELSE tpl[n]])

C8_Witness ==
  /\ pc = "done" /\ IsVarTemplate
  /\ Len(tpl) = 3 /\ tpl[1] = Var(KeyK) /\ tpl[2] = Lit(<<"a">>) /\ tpl[3] = Var(KeyK)
  /\ OwnValue(KeyK) = Bool(FALSE)
  /\ source = <<"f","a","l","s","e","a","f","a","l","s","e">>

\* C9: Clean input is a fixed point.  A template without a variable marker,
\* a conditional block or an iteration block is returned unchanged, by every
\* pass and for every context.
C9_CleanFixedPoint ==
  (pc # "read" /\ IsClean(TemplateText(tpl))) => source = TemplateText(tpl)

C9_Witness ==
  /\ pc = "done"
  /\ IsClean(TemplateText(tpl))
  /\ \E n \in 1..Len(tpl) : tpl[n].kind = "if"
  /\ \E n \in 1..Len(tpl) : tpl[n] = Lit(CloseTag)
  /\ source = TemplateText(tpl)

\* ------------------------------------------------------------------------
\* Claims about the generator
\* ------------------------------------------------------------------------

\* The database token of the configuration, Undefined when it has none.
ConfigDatabase == IF PropertyName.database \in DOMAIN config THEN config[PropertyName.database] ELSE Undefined

\* C10: Database-dependency table.  For postgresql, mysql, mongodb and h2
\* buildContext sets dbDependency and dbMavenDep to the snippets of the token;
\* for "none" and for every other token both are the empty string.
C10_DatabaseDependencyTable ==
  gpc = "built" =>
    LET db == ConfigDatabase
        expected ==
          CASE db = Str(DbToken.postgresql) -> <<Str(GradleDependency.postgresql), Str(MavenDependency.postgresql)>>
            [] db = Str(DbToken.mysql)      -> <<Str(GradleDependency.mysql), Str(MavenDependency.mysql)>>
            [] db = Str(DbToken.mongodb)    -> <<Str(GradleDependency.mongodb), Str(MavenDependency.mongodb)>>
            [] db = Str(DbToken.h2)         -> <<Str(GradleDependency.h2), Str(MavenDependency.h2)>>
            [] OTHER                  -> <<Str(<<>>), Str(<<>>)>>
    IN /\ built[PropertyName.dbDependency] = expected[1]
       /\ built[PropertyName.dbMavenDep] = expected[2]

\* The feature list of the configuration, empty when it has none.
ConfigFeatures ==
  IF PropertyName.features \in DOMAIN config THEN config[PropertyName.features].a
  ELSE <<>>

\* The feature list of the configuration holds the token.
ConfigHas(token) ==
  \E n \in 1..Len(ConfigFeatures) : ConfigFeatures[n] = Str(token)

\* C11: Cross-feature truth table.  modulithDataDep is the JPA starter when
\* the feature list holds modulith and the database is postgresql, mysql or
\* h2, the MongoDB starter when it holds modulith and the database is
\* mongodb, and the empty string in every other combination.
C11_ModulithTruthTable ==
  gpc = "built" =>
    LET db == ConfigDatabase
    IN built[PropertyName.modulithDataDep] =
         (IF ConfigHas(FeatureToken.modulith)
               /\ db \in {Str(DbToken.postgresql), Str(DbToken.mysql), Str(DbToken.h2)}
          THEN Str(ModulithDependency.jpa)
          ELSE IF ConfigHas(FeatureToken.modulith) /\ db = Str(DbToken.mongodb)
          THEN Str(ModulithDependency.mongodb)
          ELSE Str(<<>>))

C11_Witness ==
  /\ gpc = "built"
  /\ ConfigHas(FeatureToken.modulith)
  /\ ConfigDatabase = Str(DbToken.mongodb)
  /\ built[PropertyName.modulithDataDep] = Str(ModulithDependency.mongodb)

\* C12: Feature flags.  Each of hasActuator, hasSecurity, hasValidation,
\* hasModulith, hasNative, hasWebFlux and hasDockerCompose is true iff its
\* token is in the feature list; a token outside the vocabulary sets no
\* flag, and a missing feature list behaves as the empty list.
C12_FeatureFlags ==
  gpc = "built" =>
    /\ built[PropertyName.hasActuator] = Bool(ConfigHas(FeatureToken.actuator))
    /\ built[PropertyName.hasSecurity] = Bool(ConfigHas(FeatureToken.security))
    /\ built[PropertyName.hasValidation] = Bool(ConfigHas(FeatureToken.validation))
    /\ built[PropertyName.hasModulith] = Bool(ConfigHas(FeatureToken.modulith))
    /\ built[PropertyName.hasNative] = Bool(ConfigHas(FeatureToken.native))
    /\ built[PropertyName.hasWebFlux] = Bool(ConfigHas(FeatureToken.webflux))
    /\ built[PropertyName.hasDockerCompose] = Bool(ConfigHas(FeatureToken.dockerCompose))
    /\ built[PropertyName.features] = Arr(ConfigFeatures)

C12_Witness ==
  /\ gpc = "built"
  /\ ConfigFeatures = <<Str(FeatureToken.graphql), Str(FeatureToken.dockerCompose)>>
  /\ built[PropertyName.hasDockerCompose] = Bool(TRUE)
  /\ built[PropertyName.hasActuator] = Bool(FALSE)
  /\ built[PropertyName.hasModulith] = Bool(FALSE)

\* The names the name-derivation claim spells out.
Derived ==
  [ myService |-> <<"M","y","S","e","r","v","i","c","e">>,
    smokeTestProject |-> <<"S","m","o","k","e","T","e","s","t","P","r","o","j","e","c","t">>,
    comExample |-> <<"c","o","m","/","e","x","a","m","p","l","e">>,
    comAcmeApp |-> <<"c","o","m","/","a","c","m","e","/","a","p","p">> ]

\* The name is made of lowercase words joined by '-' or '_'.
IsLowerWords(name) ==
  /\ name # <<>>
  /\ \A n \in 1..Len(name) : name[n] \in Lower \cup {"-", "_"}
  /\ name[1] \in Lower /\ name[Len(name)] \in Lower
  /\ \A n \in 1..(Len(name) - 1) :
       name[n] \in {"-", "_"} => name[n + 1] \in Lower

\* The words of the name with their first letters upper-cased and the
\* separators removed.
PascalWords(name) ==
  LET IsLetter(c) == c \notin {"-", "_"}
  IN SelectSeq([n \in 1..Len(name) |->
                  IF n = 1 \/ name[n - 1] \in {"-", "_"}
                  THEN toUpperCase(name[n]) ELSE name[n]],
               IsLetter)

\* C13: Name derivation.  buildContext keeps projectName and packageName,
\* sets packagePath to packageName with every '.' replaced by '/', and sets
\* appName to the project name in Pascal case: for lowercase words joined by
\* '-' or '_' the separators go and each word starts with a capital.
C13_NameDerivation ==
  gpc = "built" =>
    LET name == config[PropertyName.projectName].s
        pkg  == config[PropertyName.packageName].s
        app  == built[PropertyName.appName]
        path == built[PropertyName.packagePath]
    IN /\ built[PropertyName.projectName] = Str(name)
       /\ built[PropertyName.packageName] = Str(pkg)
       /\ path.t = "string" /\ Len(path.s) = Len(pkg)
       /\ \A n \in 1..Len(pkg) :
            path.s[n] = (IF pkg[n] = "." THEN "/" ELSE pkg[n])
       /\ IsLowerWords(name) => app = Str(PascalWords(name))
       /\ name = Answer.myService => app = Str(Derived.myService)
       /\ name = Answer.smokeTestProject => app = Str(Derived.smokeTestProject)
       /\ pkg = Answer.comExample => path = Str(Derived.comExample)
       /\ pkg = Answer.comAcmeApp => path = Str(Derived.comAcmeApp)

C13_Witness ==
  /\ gpc = "built"
  /\ config[PropertyName.projectName] = Str(Answer.smokeTestProject)
  /\ IsLowerWords(Answer.smokeTestProject)
  /\ built[PropertyName.appName] = Str(Derived.smokeTestProject)
  /\ built[PropertyName.packagePath] = Str(Derived.comExample)

\* C14: Database family flags.  hasJpa is true exactly for postgresql, mysql
\* and h2, hasMongo exactly for mongodb; they are never both true, and both
\* are false for "none", for a missing database and for unknown tokens.
C14_DatabaseFamilyFlags ==
  gpc = "built" =>
    LET db == ConfigDatabase
    IN /\ built[PropertyName.hasJpa] =
            Bool(db \in {Str(DbToken.postgresql), Str(DbToken.mysql), Str(DbToken.h2)})
       /\ built[PropertyName.hasMongo] = Bool(db = Str(DbToken.mongodb))
       /\ ~(built[PropertyName.hasJpa] = Bool(TRUE)
              /\ built[PropertyName.hasMongo] = Bool(TRUE))
       /\ db \notin {Str(DbToken.postgresql), Str(DbToken.mysql), Str(DbToken.h2),
                     Str(DbToken.mongodb)} =>
            /\ built[PropertyName.hasJpa] = Bool(FALSE)
            /\ built[PropertyName.hasMongo] = Bool(FALSE)

C14_Witness ==
  /\ gpc = "built"
  /\ ConfigDatabase = Str(DbToken.mongodb)
  /\ built[PropertyName.hasMongo] = Bool(TRUE)
  /\ built[PropertyName.hasJpa] = Bool(FALSE)

\* C15: Description default.  A configuration without a description gives a
\* context whose description is "Spring Boot 4 microservice"; a
\* configuration with a description gives a context that carries it.
C15_DescriptionDefault ==
  gpc = "built" =>
    Lookup(built, PropertyName.description) =
      (IF PropertyName.description \in DOMAIN config
       THEN config[PropertyName.description]
       ELSE Str(Text.descriptionDefault))

\* ------------------------------------------------------------------------
\* Claims about a generation run
\* ------------------------------------------------------------------------

\* The paths the claims about a run spell out.
Expected ==
  [ root |-> <<"s","m","o","k","e","-","t","e","s","t","-","p","r","o","j","e","c","t">>,
    buildGradleKts |-> <<"s","m","o","k","e","-","t","e","s","t","-","p","r","o","j","e","c","t","/","b","u","i","l","d",".","g","r","a","d","l","e",".","k","t","s">>,
    applicationYaml |-> <<"s","m","o","k","e","-","t","e","s","t","-","p","r","o","j","e","c","t","/","s","r","c","/","m","a","i","n","/","r","e","s","o","u","r","c","e","s","/","a","p","p","l","i","c","a","t","i","o","n",".","y","a","m","l">>,
    srcMainJava |-> <<"s","m","o","k","e","-","t","e","s","t","-","p","r","o","j","e","c","t","/","s","r","c","/","m","a","i","n","/","j","a","v","a","/">>,
    applicationJava |-> <<"s","m","o","k","e","-","t","e","s","t","-","p","r","o","j","e","c","t","/","s","r","c","/","m","a","i","n","/","j","a","v","a","/","c","o","m","/","e","x","a","m","p","l","e","/","S","m","o","k","e","T","e","s","t","P","r","o","j","e","c","t","A","p","p","l","i","c","a","t","i","o","n",".","j","a","v","a">>,
    suffix |-> <<"A","p","p","l","i","c","a","t","i","o","n",".","j","a","v","a">>,
    pomXml |-> <<"/","p","o","m",".","x","m","l">>,
    gradle |-> <<"/","b","u","i","l","d",".","g","r","a","d","l","e",".","k","t","s">>,
    pomTemplate |-> <<"t","e","m","p","l","a","t","e","s","/","m","a","v","e","n","/","p","o","m",".","x","m","l",".","t","e","m","p","l","a","t","e">>,
    gradleTemplate |-> <<"t","e","m","p","l","a","t","e","s","/","g","r","a","d","l","e","-","k","o","t","l","i","n","/","b","u","i","l","d",".","g","r","a","d","l","e",".","k","t","s",".","t","e","m","p","l","a","t","e">>,
    composeYaml |-> <<"/","c","o","m","p","o","s","e",".","y","a","m","l">>,
    yaml |-> <<"/","s","r","c","/","m","a","i","n","/","r","e","s","o","u","r","c","e","s","/","a","p","p","l","i","c","a","t","i","o","n",".","y","a","m","l">>,
    main |-> <<"/","s","r","c","/","m","a","i","n","/","j","a","v","a","/">>,
    test |-> <<"/","s","r","c","/","t","e","s","t","/","j","a","v","a","/">>,
    tests |-> <<"A","p","p","l","i","c","a","t","i","o","n","T","e","s","t","s",".","j","a","v","a">>,
    orders |-> <<"/","o","r","d","e","r","s","/","i","n","t","e","r","n","a","l">>,
    inventory |-> <<"/","i","n","v","e","n","t","o","r","y","/","i","n","t","e","r","n","a","l">>,
    shared |-> <<"/","s","h","a","r","e","d","/","i","n","t","e","r","n","a","l">> ]

\* The paths of the files below the working directory.
FilePaths == {f.path : f \in files}

\* The text s ends with suf.
EndsWith(s, suf) ==
  Len(s) >= Len(suf) /\ SubSeq(s, Len(s) - Len(suf) + 1, Len(s)) = suf

\* The root directory of the project of the run.
Root == config[PropertyName.projectName].s

\* The run has ended without a failure.
Succeeded == gpc = "done"

\* C16: End-to-end scaffold.  For the project name smoke-test-project, the
\* package com.example and the build tool gradle, a run without a failure
\* ends with the directory smoke-test-project, which holds build.gradle.kts,
\* src/main/resources/application.yaml and, under src/main/java, exactly one
\* file whose name ends in Application.java:
\* com/example/SmokeTestProjectApplication.java.
C16_SmokeScaffold ==
  (/\ Succeeded
   /\ config[PropertyName.projectName] = Str(Answer.smokeTestProject)
   /\ config[PropertyName.packageName] = Str(Answer.comExample)
   /\ Lookup(config, PropertyName.buildTool) = Str(Answer.gradle)) =>
    /\ Expected.root \in dirs
    /\ Expected.buildGradleKts \in FilePaths
    /\ Expected.applicationYaml \in FilePaths
    /\ {p \in FilePaths : /\ StartsWithAt(p, 1, Expected.srcMainJava)
                          /\ EndsWith(p, Expected.suffix)}
         = {Expected.applicationJava}

C16_Witness ==
  /\ Succeeded
  /\ config[PropertyName.projectName] = Str(Answer.smokeTestProject)
  /\ config[PropertyName.packageName] = Str(Answer.comExample)
  /\ Lookup(config, PropertyName.buildTool) = Str(Answer.gradle)
  /\ Expected.applicationJava \in FilePaths
  /\ Expected.buildGradleKts \in FilePaths

\* C17: Build descriptor selection.  A run without a failure leaves exactly
\* one build descriptor in the project root: pom.xml, rendered from the
\* maven template set, iff buildTool is "maven"; build.gradle.kts, rendered
\* from the gradle-kotlin set, for every other buildTool.  At no point of a
\* run are both present.
C17_BuildDescriptor ==
  LET pom    == Root \o Expected.pomXml
      gradle == Root \o Expected.gradle
      maven  == Lookup(config, PropertyName.buildTool) = Str(Answer.maven)
  IN /\ gpc \in {"built", "done", "catch", "exited"} /\ config # <<>> =>
          ~(pom \in FilePaths /\ gradle \in FilePaths)
     /\ Succeeded /\ maven =>
          /\ [path |-> pom, content |-> Expected.pomTemplate] \in files
          /\ gradle \notin FilePaths
     /\ Succeeded /\ ~maven =>
          /\ [path |-> gradle, content |-> Expected.gradleTemplate] \in files
          /\ pom \notin FilePaths

C17_Witness ==
  /\ Succeeded
  /\ Lookup(config, PropertyName.buildTool) = Str(Answer.maven)
  /\ [path |-> Root \o Expected.pomXml, content |-> Expected.pomTemplate] \in files
  /\ Root \o Expected.gradle \notin FilePaths

\* The module skeleton directories of the run.
SkeletonDirs ==
  {Root \o Expected.main \o built[PropertyName.packagePath].s \o d :
     d \in {Expected.orders, Expected.inventory, Expected.shared}}

\* C18: Optional artifacts.  After a run without a failure compose.yaml is
\* written iff the feature list holds docker-compose, and the directories
\* orders/internal, inventory/internal and shared/internal under
\* src/main/java/<packagePath> exist iff it holds modulith; the build
\* descriptor, the main class, application.yaml and the test class are
\* written in every such run.
C18_OptionalArtifacts ==
  Succeeded =>
    LET pkg == built[PropertyName.packagePath].s
        app == built[PropertyName.appName].s
    IN /\ Root \o Expected.composeYaml \in FilePaths
            <=> ConfigHas(FeatureToken.dockerCompose)
       /\ ConfigHas(FeatureToken.modulith) => SkeletonDirs \subseteq dirs
       /\ ~ConfigHas(FeatureToken.modulith) => SkeletonDirs \cap dirs = {}
       /\ (Root \o Expected.pomXml \in FilePaths)
            \/ (Root \o Expected.gradle \in FilePaths)
       /\ Root \o Expected.main \o pkg \o <<"/">> \o app \o Expected.suffix
            \in FilePaths
       /\ Root \o Expected.yaml \in FilePaths
       /\ Root \o Expected.test \o pkg \o <<"/">> \o app \o Expected.tests
            \in FilePaths

C18_Witness ==
  /\ Succeeded
  /\ ConfigFeatures = <<Str(FeatureToken.modulith), Str(FeatureToken.graphql)>>
  /\ SkeletonDirs \subseteq dirs
  /\ Root \o Expected.composeYaml \notin FilePaths
  /\ Root \o Expected.yaml \in FilePaths

\* The last call of the run raised an error.
LastCallRaised == log # <<>> /\ log[Len(log)].err # NoError

\* C19: Failure semantics.  When a file-system call of generateProject
\* fails, the error it raised is the error the caller gets, it is the last
\* call of the run, and nothing the earlier calls created is removed: from
\* then on the directories and files stay as they are.
C19_FailureSemantics ==
  /\ [](/\ LastCallRaised => /\ thrown = log[Len(log)].err
                             /\ gpc \in {"catch", "exited"}
        /\ \A n \in 1..(Len(log) - 1) : log[n].err = NoError)
  /\ [][/\ dirs \subseteq dirs'
        /\ FilePaths \subseteq {f.path : f \in files'}
        /\ LastCallRaised' => dirs' = dirs /\ files' = files
        /\ LastCallRaised => log' = log]_vars

C19_Witness ==
  /\ gpc = "exited"
  /\ LastCallRaised
  /\ log[Len(log)].op = "writeFileSync"
  /\ thrown = Error(Text.error, Text.eacces)
  /\ Len(log) >= 5
  /\ Root \in dirs
  /\ files # {}

\* C20: Top-level error policy.  An error of the wizard or of the generator
\* other than a cancelled prompt makes the command print an error message
\* and exit with status 1; a cancelled prompt makes it exit with status 0;
\* in neither case is the wizard or the generation run again.
C20_TopLevelErrorPolicy ==
  /\ [](/\ exit # <<>> <=> gpc = "exited"
        /\ gpc = "exited" =>
             IF thrown.name = Text.exitPromptError
             THEN exit = <<0>> /\ out[Len(out)] = "console.log Cancelled"
             ELSE exit = <<1>> /\ out[Len(out)] = "console.error Error"
        /\ gpc \in {"catch", "exited"} <=> thrown # NoError)
  /\ [][thrown # NoError =>
          /\ gpc' = "exited"
          /\ UNCHANGED <<config, built, dirs, files, log, thrown>>]_vars

C20_Witness ==
  /\ gpc = "exited"
  /\ thrown \in FsErrors
  /\ exit = <<1>>
  /\ out = <<"spinner.start", "spinner.fail", "console.error Error">>

\* ------------------------------------------------------------------------
\* More claims about the template engine
\* ------------------------------------------------------------------------

\* {{#if a}}X{{#if b}}Y{{/if}}Z{{/if}}, X, Y and Z texts.
IsNestedIfTemplate ==
  /\ Len(tpl) = 7
  /\ tpl[1].kind = "if" /\ tpl[3].kind = "if"
  /\ tpl[2].kind = "lit" /\ tpl[4].kind = "lit" /\ tpl[6].kind = "lit"
  /\ tpl[5].kind = "endif" /\ tpl[7].kind = "endif"

\* C25: Non-nesting of conditionals.  In {{#if a}}X{{#if b}}Y{{/if}}Z{{/if}}
\* the first closing marker ends the outer block, whose body is
\* X{{#if b}}Y; the predicate b is never evaluated; and Z{{/if}} stays in
\* the output whatever a and b are.
C25_NonNesting ==
  (IsNestedIfTemplate /\ pc \in {"each", "interpolate", "done"}) =>
    LET body == tpl[2].arg \o OpenIf \o tpl[3].arg \o CloseTag \o tpl[4].arg
        rest == tpl[6].arg \o EndIf
    IN /\ source \in {body \o rest, rest}
       /\ source = body \o rest <=> Truthy(Lookup(ctx, tpl[1].arg))
       /\ \A v \in {Undefined, Bool(TRUE), Bool(FALSE)} :
            tpl[3].arg # tpl[1].arg =>
              Render(TemplateText(tpl),
                     [key \in (DOMAIN ctx \cup {tpl[3].arg})
                               \ {k \in {tpl[3].arg} : v = Undefined} |->
                        IF key = tpl[3].arg THEN v ELSE ctx[key]])
                = Render(TemplateText(tpl), ctx)

C25_Witness ==
  /\ IsNestedIfTemplate /\ pc = "done"
  /\ tpl[1].arg = KeyK /\ tpl[3].arg = KeyXs
  /\ OwnValue(KeyK) = Bool(TRUE) /\ OwnValue(KeyXs) = Bool(FALSE)
  /\ tpl[2].arg = <<"x">> /\ tpl[6].arg = <<"z">>
  /\ source = <<"x">> \o OpenIf \o KeyXs \o CloseTag \o <<"y","z">> \o EndIf

\* C26: Verbatim element insertion.  The iteration pass replaces every item
\* marker of the body by exactly the element's string representation, for
\* every element, whatever characters its text holds.
C26_VerbatimInsertion ==
  (pc = "interpolate" /\ IsEachTemplate /\ IsArray(Lookup(ctx, tpl[2].arg))) =>
    LET xs == Lookup(ctx, tpl[2].arg).a
    IN source = tpl[1].arg
                  \o Concat([n \in 1..Len(xs) |-> ExpectedCopy(EachBody, xs[n])])
                  \o tpl[Len(tpl)].arg

\* The text spells out a variable marker.
IsVarMarkerText(s) ==
  /\ Len(s) > Len(OpenVar) + Len(CloseTag)
  /\ StartsWithAt(s, 1, OpenVar)
  /\ StartsWithAt(s, Len(s) - Len(CloseTag) + 1, CloseTag)
  /\ \A n \in (Len(OpenVar) + 1)..(Len(s) - Len(CloseTag)) : s[n] \in WordChars

\* C27: No re-interpretation of substituted values.  A value the
\* interpolation pass inserts, and an element the iteration pass inserts,
\* that spells out a variable marker or a conditional block is in the output
\* as that text: no pass scans it again.
C27_NoReinterpretation ==
  /\ (/\ pc = "done" /\ IsVarTemplate
      /\ OwnValue(KeyK).t = "string"
      /\ (IsVarMarkerText(OwnValue(KeyK).s) \/ OwnValue(KeyK).s = CondText)) =>
       source = TemplateText([n \in 1..Len(tpl) |->
                  IF tpl[n] = Var(KeyK) THEN Lit(OwnValue(KeyK).s)
                  ELSE IF tpl[n].kind = "var" THEN Lit(String(Lookup(ctx, tpl[n].arg)))
                  ELSE tpl[n]])
  /\ (/\ pc = "done" /\ IsEachTemplate /\ tpl[2].arg = KeyXs
      /\ IsArray(OwnValue(KeyXs))
      /\ \A n \in 1..Len(EachBody) : EachBody[n].kind # "var"
      /\ \A n \in 1..Len(OwnValue(KeyXs).a) :
           /\ OwnValue(KeyXs).a[n].t = "string"
           /\ \/ IsVarMarkerText(OwnValue(KeyXs).a[n].s)
              \/ OwnValue(KeyXs).a[n].s = CondText) =>
       source = tpl[1].arg
                  \o Concat([n \in 1..Len(OwnValue(KeyXs).a) |->
                               ExpectedCopy(EachBody, OwnValue(KeyXs).a[n])])
                  \o tpl[Len(tpl)].arg

\* ------------------------------------------------------------------------
\* More claims about the generator
\* ------------------------------------------------------------------------

\* C28: Valid class name.  For every project name the wizard's validation
\* accepts, the derived appName (and so the name of the generated
\* <appName>Application.java) is made of letters and digits only: it holds
\* no hyphen.
C28_ValidClassName ==
  (gpc = "built" /\ validateProjectName(config[PropertyName.projectName].s)) =>
    LET app == built[PropertyName.appName].s
    IN \A n \in 1..Len(app) : app[n] \in Lower \cup Upper \cup Digit

\* The directory a path lies in: the path up to its last '/'.
Dirname(path) ==
  LET slashes == {n \in 1..Len(path) : path[n] = "/"}
  IN IF slashes = {} THEN <<>>
     ELSE SubSeq(path, 1, (CHOOSE n \in slashes : \A m \in slashes : m <= n) - 1)

\* The calls of the log that returned.
ReturnedAt(n) == n \in 1..Len(log) /\ log[n].err = NoError

\* C24: Sequential ordering.  In every generation run the first call creates
\* the root directory, so it exists before any file is written; the
\* directory of every file has been created by an earlier mkdirSync of the
\* run when the file is written; every write is the call right after the
\* render of its content and every render is followed by its write before
\* anything else is started; no template is rendered twice and no file
\* written twice; and the calls are made one at a time, the log growing by
\* one call per step.
C24_SequentialOrdering ==
  /\ [](/\ (log # <<>> => log[1].op = "mkdirSync" /\ log[1].path = Root)
        /\ \A f \in files : Dirname(f.path) \in dirs /\ Root \in dirs
        /\ \A n \in 1..Len(log) :
             /\ log[n].op = "writeFileSync" =>
                  /\ ReturnedAt(1)
                  /\ n > 1 /\ log[n - 1].op = "renderTemplate" /\ ReturnedAt(n - 1)
                  /\ \E m \in 1..(n - 1) :
                       /\ log[m].op = "mkdirSync" /\ ReturnedAt(m)
                       /\ Dirname(log[n].path) \in Ancestors(log[m].path)
             /\ (log[n].op = "renderTemplate" /\ n < Len(log)) =>
                  log[n + 1].op = "writeFileSync"
             /\ \A m \in 1..Len(log) :
                  (m # n /\ log[m].op = log[n].op /\ log[n].op # "mkdirSync") =>
                    log[m].path # log[n].path)
  /\ [][\/ log' = log
        \/ log' = <<>>
        \/ Len(log') = Len(log) + 1 /\ SubSeq(log', 1, Len(log)) = log]_vars

\* A run that rendered and wrote every artifact, compose.yaml among them.
C24_Witness ==
  /\ Succeeded
  /\ Cardinality(files) = 5
  /\ Len(log) = Len(Calls)
  /\ \E n \in 1..Len(log) :
       log[n].op = "writeFileSync" /\ EndsWith(log[n].path, PathName.composeYaml)

\* How often a line was put out.
Occurrences(line) == Cardinality({n \in 1..Len(out) : out[n] = line})

\* C30: Outcome reporting.  A run of generateProject reports at most one
\* outcome and, once it has ended, exactly one; success and the next steps
\* are reported, in this order, only when every call of the run has
\* returned and every file and directory the configuration selects is
\* there; failure is reported exactly when a call raised, and it is in the
\* output before the command handles the error.
C30_OutcomeReporting ==
  LET succeeded == Occurrences("spinner.succeed")
      failed    == Occurrences("spinner.fail")
      started   == Occurrences("spinner.start")
  IN /\ succeeded + failed <= started
     /\ started <= 1
     /\ (started = 1 /\ gpc \in {"done", "catch", "exited"}) =>
          succeeded + failed = 1
     /\ succeeded = 1 =>
          /\ Len(log) = Len(Calls)
          /\ \A n \in 1..Len(log) : ReturnedAt(n)
          /\ \A n \in 1..Len(Calls) :
               /\ Calls[n].op = "writeFileSync" => Calls[n].path \in FilePaths
               /\ Calls[n].op = "mkdirSync" => Calls[n].path \in dirs
     /\ Occurrences("printNextSteps") = succeeded
     /\ \A n \in 1..Len(out) :
          /\ out[n] = "printNextSteps" => n > 1 /\ out[n - 1] = "spinner.succeed"
          /\ (out[n] \in {"console.error Error", "console.log Cancelled"}
                /\ started = 1) =>
               \E m \in 1..(n - 1) : out[m] = "spinner.fail"
     /\ failed = 1 <=> \E n \in 1..Len(log) : ~ReturnedAt(n)

\* A run that failed after it had written a file: the failure is reported
\* and the command has handled the error.
C30_Witness ==
  /\ gpc = "exited"
  /\ Occurrences("spinner.fail") = 1
  /\ Cardinality(files) >= 2
  /\ log[Len(log)].op = "renderTemplate"

\* C29: Re-run idempotence.  When generateProject runs again with the same
\* configuration in the same working directory and no file-system call
\* fails, no call of the later run raises (a directory that is there is no
\* error), no step of the later run changes the set of directories or the
\* set of file paths, and so the sets after it are the sets after the
\* first run: the directories and the files of the run's calls.
C29_RerunIdempotence ==
  /\ [](Runs >= 2 =>
          /\ \A n \in 1..Len(log) : ReturnedAt(n)
          /\ thrown = NoError /\ gpc # "catch"
          /\ gpc = "done" =>
               /\ dirs = UNION {Ancestors(Calls[n].path) :
                                  n \in {m \in 1..Len(Calls) : Calls[m].op = "mkdirSync"}}
               /\ FilePaths = {Calls[n].path :
                                 n \in {m \in 1..Len(Calls) : Calls[m].op = "writeFileSync"}}
               /\ Cardinality(files) = Cardinality(FilePaths))
  /\ [][Runs >= 2 => dirs' = dirs /\ FilePaths' = FilePaths]_vars

\* A second run that ended: it wrote the five files again and made the
\* module skeleton again.
C29_Witness ==
  /\ gpc = "done"
  /\ Runs = 2
  /\ Cardinality(files) = 5
  /\ \E d \in dirs : EndsWith(d, PathName.internal)
  /\ Len(log) = Len(Calls)

\* ------------------------------------------------------------------------
\* Claims about the wizard
\* ------------------------------------------------------------------------

\* runWizard has returned its answers to the command.
WizardReturned == gpc \in {"generateProject", "buildContext", "built", "done"}

\* The question of this name was put to the user.
WasAsked(name) ==
  \E n \in 1..Len(prompts) : prompts[n].name = name /\ prompts[n].asked

\* C21: Project-name argument skips the prompt.  When a project name is
\* passed on the command line, the project-name question is not asked, and
\* the configuration the wizard returns has the argument as projectName.
C21_ArgumentSkipsPrompt ==
  (argv # <<>> /\ Truthy(argv.projectName)) =>
    /\ ~WasAsked(PropertyName.projectName)
    /\ WizardReturned =>
         Lookup(config, PropertyName.projectName) = argv.projectName

\* C22: Non-interactive mode.  With --no-interactive no question is asked,
\* and the configuration returned is the fixed defaults (package
\* com.example, Java 25, Boot 4.0.3, postgresql, the features actuator,
\* security, validation, the default description), with the argument as
\* projectName, or my-service when none (or an empty one) is given, and
\* with buildTool maven if --maven was passed and gradle if not.
C22_NonInteractive ==
  (argv # <<>> /\ ~argv.interactive /\ gpc # "runWizard") =>
    /\ WizardReturned
    /\ prompts = <<>>
    /\ DOMAIN config =
         { PropertyName.projectName, PropertyName.packageName,
           PropertyName.description, PropertyName.buildTool,
           PropertyName.javaVersion, PropertyName.bootVersion,
           PropertyName.database, PropertyName.features }
    /\ config[PropertyName.packageName] = Str(Answer.comExample)
    /\ config[PropertyName.description] = Str(Text.descriptionDefault)
    /\ config[PropertyName.javaVersion] = Str(Answer.java25)
    /\ config[PropertyName.bootVersion] = Str(Answer.boot403)
    /\ config[PropertyName.database] = Str(DbToken.postgresql)
    /\ config[PropertyName.features] =
         Arr(<<Str(FeatureToken.actuator), Str(FeatureToken.security),
               Str(FeatureToken.validation)>>)
    /\ config[PropertyName.projectName] =
         (IF argv.projectName \in {Undefined, Str(<<>>)}
          THEN Str(Answer.myService) ELSE argv.projectName)
    /\ config[PropertyName.buildTool] = Str(Answer.maven) <=> argv.maven
    /\ config[PropertyName.buildTool] = Str(Answer.gradle) <=> ~argv.maven

\* A --no-interactive --maven run with a name that has written its files.
C22_Witness ==
  /\ argv # <<>> /\ ~argv.interactive /\ argv.maven
  /\ argv.projectName = Str(Answer.smokeTestProject)
  /\ gpc = "done"
  /\ \E f \in files : EndsWith(f.path, PathName.pomXml)

\* C23: Minimal option.  When the user answers yes to the minimal question,
\* the features question is not asked and the configuration returned has
\* an empty feature list; the context built from it has every feature flag
\* false, and the run writes no compose.yaml and makes no module skeleton.
C23_MinimalOption ==
  (WizardReturned /\ Lookup(config, PropertyName.minimal) = Bool(TRUE)) =>
    /\ ~WasAsked(PropertyName.features)
    /\ Lookup(config, PropertyName.features) = Arr(<<>>)
    /\ built # <<>> =>
         \A flag \in { PropertyName.hasActuator, PropertyName.hasSecurity,
                       PropertyName.hasValidation, PropertyName.hasModulith,
                       PropertyName.hasNative, PropertyName.hasWebFlux,
                       PropertyName.hasDockerCompose } :
           built[flag] = Bool(FALSE)
    /\ \A f \in files : ~EndsWith(f.path, PathName.composeYaml)
    /\ \A d \in dirs : ~EndsWith(d, PathName.internal)
    /\ \A n \in 1..Len(log) :
         /\ ~EndsWith(log[n].path, PathName.composeYaml)
         /\ ~EndsWith(log[n].path, PathName.internal)

\* A minimal project that has been generated.
C23_Witness ==
  /\ gpc = "done"
  /\ Lookup(config, PropertyName.minimal) = Bool(TRUE)
  /\ Cardinality(files) = 4
  /\ WasAsked(PropertyName.minimal)

====
